---- MODULE Spec2Model ----
(***************************************************************************)
(* warcraftlogs-discord-bot: the watch supervisor (Watch / Unwatch over a  *)
(* sync.Map of cancel functions), the per-guild poll loop (watchLoop), the *)
(* change detector (checkChanges) with its ttlcache of report states, and  *)
(* the delivery of StatsEvents to the registered handler.                  *)
(*                                                                         *)
(* Time is counted in minutes.  A goroutine may be delayed arbitrarily     *)
(* between two steps, so the clock may advance between any two steps; a    *)
(* timer or a deadline is never early, and may be observed late.           *)
(***************************************************************************)
EXTENDS Integers, Sequences, FiniteSets, TLC

VARIABLES
    now,            \* wall clock, minutes
    watched,        \* Watcher.watched: ServerId -> context whose cancel func is stored
    nextCtx,        \* next context created by context.WithCancel
    cancelled,      \* contexts whose cancel func has been invoked
    pendingGo,      \* Watch calls past LoadOrStore, before `go w.watchLoop`
    pendingCancel,  \* Unwatch calls past LoadAndDelete, before `cancel()`
    loops,          \* watchLoop goroutines, by their context
    upstream,       \* what the log service currently answers to FindReports
    emitted,        \* StatsEvents handed to w.handler, in order
    ticks,          \* number of times the clock has advanced
    uploads,        \* number of uploads the log service has received
    calls,          \* history: number of Watch/Unwatch calls made
    last,           \* history: the last Watch/Unwatch call and what the map answered
    \* warcraftlogs.Client and the goroutines calling it
    token,          \* Client.token: 0 is the empty string, k > 0 the k-th token issued
    expiresAt,      \* Client.expiresAt
    mu,             \* Client.mu: the caller holding the write lock, or NoCaller
    callers,        \* goroutines inside ensureToken / gql, by caller id
    exchanges,      \* history: the token exchanges (getToken calls) made, in order
    \* Client.getDeathEvents and Client.TopDeathsForReport
    pages,          \* what the log service answers to the next events queries
    deaths,         \* getDeathEvents: the events accumulated, then returned
    pageTimestamp,  \* getDeathEvents: the cursor of the next query, or NoCursor
    pageCount,      \* getDeathEvents: pages with a cursor seen
    queries,        \* history: the startTime variable of the events queries sent
    gdePc,          \* getDeathEvents: position
    totalDeaths,    \* TopDeathsForReport: the total counter (list of PlayerTop)
    firstDeaths,    \* TopDeathsForReport: the first-death counter
    fightNo,        \* TopDeathsForReport: fights of the range loop reached so far
    eventNo,        \* TopDeathsForReport: events of the current fight processed
    firstTaken,     \* TopDeathsForReport: the current fight has its first death
    details,        \* TopDeathsForReport: the ReportDetails returned, or NoDetails
    tdPc,           \* TopDeathsForReport: position
    \* Client.gql: what it does with an answered request
    resp,           \* the response: its status and the envelope resty decoded
    out,            \* the caller's output value (`out any`)
    gqlErr,         \* the error gql returned, Pending before it returns
    \* Client.TopDeathsForReport calling Client.getDeathEvents
    events,         \* the events getDeathEvents returned for the current fight
    fetched,        \* getDeathEvents calls that have returned events
    namedFights,    \* history: fights fetched with a named death event
    namedEvents,    \* history: named death events of the fights fetched
    \* main: the configuration store and the goroutines of the event handlers
    store,          \* storage.Store: ServerId -> the Server saved
    handlers,       \* set-config and GuildCreate handler goroutines, by id
    \* main: the handler registered with OnUpdate
    messageCache,   \* key -> id of the chat message recorded for the key
    messages,       \* history: the keys of the chat messages created, in order
    deliveries      \* invocations of the OnUpdate handler, by id

watcherVars == <<now, watched, nextCtx, cancelled, pendingGo, pendingCancel, loops,
                 upstream, ticks, uploads, emitted, calls, last>>

clientVars == <<token, expiresAt, mu, callers, exchanges>>

fetchVars == <<pages, deaths, pageTimestamp, pageCount, queries, gdePc,
               totalDeaths, firstDeaths, fightNo, eventNo, firstTaken, details, tdPc>>

envelopeVars == <<resp, out, gqlErr>>

rangeVars == <<events, fetched, namedFights, namedEvents>>

configVars == <<store, handlers>>

deliverVars == <<messageCache, messages, deliveries>>

botVars == <<envelopeVars, rangeVars, configVars, deliverVars>>

vars == <<watcherVars, clientVars, fetchVars, botVars>>

----------------------------------------------------------------------------
(* Program constants (minutes). *)

CacheTTL == 60
OutdatedAfter == 15
PollInterval == 1
CycleTimeout == 1
RaidSize == 20

(* Bounds of the model. *)

MaxOps == 3
MaxTicks == 3
MaxUploads == 1
MaxReports == 2
MaxCallers == 2
MaxGqlCallers == 1
MaxFights == 2
MaxFightEvents == 3
MaxServerPages == 3
MaxErrors == 2
MaxPageEvents == 2
MaxMinutes == 62
MaxSetConfigs == 2
MaxDeliveries == 2

----------------------------------------------------------------------------
(* Data *)

Server(g, ch) == [ServerId |-> g, ChannelId |-> ch, WlGuildId |-> 1, WipeCutoff |-> 3]

Mythic20 == <<[Name |-> "Mythic", Sizes |-> <<20>>]>>
HeroicFlex == <<[Name |-> "Heroic", Sizes |-> <<10, 30>>]>>
MythicFlex == <<[Name |-> "Mythic", Sizes |-> <<10, 20>>]>>
NormalThenMythic == <<[Name |-> "Normal", Sizes |-> <<20>>], [Name |-> "Mythic", Sizes |-> <<20>>]>>
Mythic25 == <<[Name |-> "Mythic", Sizes |-> <<25>>]>>
NoDifficulties == << >>

Report(code, endTime, difficulties) ==
    [Code |-> code, EndTime |-> endTime, Difficulties |-> difficulties]

CachedReport(endTime, isLive, expiry) ==
    [endTime |-> endTime, isLive |-> isLive, expiresAt |-> expiry]

StatsEvent(server, report, isLive) ==
    [Server |-> server, ReportId |-> report.Code, Live |-> isLive,
     LastUpload |-> report.EndTime]

NoReport == Report("", 0, NoDifficulties)
NoCall == [op |-> "none", guild |-> "", hit |-> FALSE]

NoCaller == 0
NoCursor == -1
NoDetails == [TopDeaths |-> <<"none">>, TopFirstDeaths |-> <<"none">>]

\* No goroutine uses the client.
ClientIdle ==
    /\ token = 0
    /\ expiresAt = 0
    /\ mu = NoCaller
    /\ callers = << >>
    /\ exchanges = << >>

\* getDeathEvents at position pc, the log service holding the pages ps.
EventsStart(pc, ps) ==
    /\ pages = ps
    /\ deaths = << >>
    /\ pageTimestamp = NoCursor
    /\ pageCount = 0
    /\ queries = << >>
    /\ gdePc = pc

\* TopDeathsForReport at position pc, its counters empty.
TopDeathsStart(pc) ==
    /\ totalDeaths = << >>
    /\ firstDeaths = << >>
    /\ fightNo = 0
    /\ eventNo = 0
    /\ firstTaken = FALSE
    /\ details = NoDetails
    /\ tdPc = pc

\* No stats fetch is in progress.
FetchIdle == EventsStart("idle", << >>) /\ TopDeathsStart("idle")

NoResponse == [status |-> 0, errors |-> << >>, data |-> ""]
NilOut == -1
GqlError(kind, message) == [kind |-> kind, message |-> message]
NoError == GqlError("nil", "")
Pending == GqlError("pending", "")

\* No answered request is being judged.
EnvelopeIdle ==
    /\ resp = NoResponse
    /\ out = NilOut
    /\ gqlErr = NoError

\* TopDeathsForReport has fetched the events of no fight.
RangeIdle ==
    /\ events = << >>
    /\ fetched = 0
    /\ namedFights = 0
    /\ namedEvents = 0

\* Nothing is configured and no event handler runs.
ConfigIdle ==
    /\ store = << >>
    /\ handlers = << >>

\* No update has been delivered.
DeliverIdle ==
    /\ messageCache = << >>
    /\ messages = << >>
    /\ deliveries = << >>

BotIdle == EnvelopeIdle /\ RangeIdle /\ ConfigIdle /\ DeliverIdle

----------------------------------------------------------------------------
(* sync.Map *)

\* Mutant: a plain Store, which overwrites the present value.
LoadOrStoreOverwrites(m, k, v) ==
    [m |-> [x \in DOMAIN m \cup {k} |-> IF x = k THEN v ELSE m[x]],
     actual |-> v, loaded |-> FALSE]

LoadOrStore(m, k, v) ==
    IF k \in DOMAIN m
    THEN [m |-> m, actual |-> m[k], loaded |-> TRUE]
    ELSE [m |-> m @@ (k :> v), actual |-> v, loaded |-> FALSE]

\* Mutant: the delete empties the map.
LoadAndDeleteClears(m, k) ==
    IF k \in DOMAIN m
    THEN [m |-> << >>, value |-> m[k], loaded |-> TRUE]
    ELSE [m |-> << >>, value |-> 0, loaded |-> FALSE]

LoadAndDelete(m, k) ==
    IF k \in DOMAIN m
    THEN [m |-> [x \in DOMAIN m \ {k} |-> m[x]], value |-> m[k], loaded |-> TRUE]
    ELSE [m |-> m, value |-> 0, loaded |-> FALSE]

----------------------------------------------------------------------------
(* ttlcache (github.com/jellydator/ttlcache/v3) as watchLoop configures it:  *)
(* WithTTL(1h), touch on hit left enabled.                                   *)

Expired(item, t) == item.expiresAt < t

CacheHas(cache, key, t) == key \in DOMAIN cache /\ ~Expired(cache[key], t)

\* Get: nil for a missing or expired item; a hit moves the item's expiry to t + ttl.
CacheGet(cache, key, t) ==
    IF CacheHas(cache, key, t)
    THEN [item |-> cache[key], found |-> TRUE,
          cache |-> [cache EXCEPT ![key].expiresAt = t + CacheTTL]]
    ELSE [item |-> CachedReport(0, FALSE, 0), found |-> FALSE, cache |-> cache]

\* Mutant: the liveness flag of the stored value is always true.
CacheSetAlwaysLive(cache, key, endTime, isLive, t) ==
    [x \in DOMAIN cache \cup {key} |->
        IF x = key THEN CachedReport(endTime, TRUE, t + CacheTTL) ELSE cache[x]]

\* Set(key, value, DefaultTTL): insert or overwrite, expiry t + ttl.
CacheSet(cache, key, endTime, isLive, t) ==
    [x \in DOMAIN cache \cup {key} |->
        IF x = key THEN CachedReport(endTime, isLive, t + CacheTTL) ELSE cache[x]]

\* The eviction goroutine (reportsCache.Start) deletes the expired items.
CacheDeleteExpired(cache, t) ==
    [x \in {k \in DOMAIN cache : ~Expired(cache[k], t)} |-> cache[x]]

----------------------------------------------------------------------------
(* deleteNonRaid *)

\* Mutant: some size of the Mythic difficulty is the raid size.
IsMythicRaidAnySize(report) ==
    \E i \in DOMAIN report.Difficulties :
        /\ report.Difficulties[i].Name = "Mythic"
        /\ \E k \in DOMAIN report.Difficulties[i].Sizes :
              report.Difficulties[i].Sizes[k] = RaidSize

IsMythicRaid(report) ==
    \E i \in DOMAIN report.Difficulties :
        /\ report.Difficulties[i].Name = "Mythic"
        /\ Len(report.Difficulties[i].Sizes) = 1
        /\ report.Difficulties[i].Sizes[1] = RaidSize

deleteNonRaid(reports) == SelectSeq(reports, IsMythicRaid)

----------------------------------------------------------------------------
(* checkChanges: the decision for one report *)

IsOutdated(report, t) == t - report.EndTime > OutdatedAfter

\* Mutant: the offline case does not look at the cached liveness.
DecideRepeatsOffline(isInCache, cachedReport, report, isOutdated) ==
    IF ~isInCache
    THEN IF isOutdated
         THEN [update |-> FALSE, isLive |-> FALSE]
         ELSE [update |-> TRUE, isLive |-> TRUE]
    ELSE IF cachedReport.endTime # report.EndTime
         THEN [update |-> TRUE, isLive |-> ~isOutdated]
         ELSE IF isOutdated
              THEN [update |-> TRUE, isLive |-> FALSE]
              ELSE [update |-> FALSE, isLive |-> FALSE]

\* Mutant: a report that is not cached and outdated gets an offline update.
DecideOfflineForUnseen(isInCache, cachedReport, report, isOutdated) ==
    IF ~isInCache
    THEN [update |-> TRUE, isLive |-> ~isOutdated]
    ELSE IF cachedReport.endTime # report.EndTime
         THEN [update |-> TRUE, isLive |-> ~isOutdated]
         ELSE IF cachedReport.isLive /\ isOutdated
              THEN [update |-> TRUE, isLive |-> FALSE]
              ELSE [update |-> FALSE, isLive |-> FALSE]

\* Mutant: a report that is not cached always gets a live update.
DecideLiveForUnseen(isInCache, cachedReport, report, isOutdated) ==
    IF ~isInCache
    THEN [update |-> TRUE, isLive |-> TRUE]
    ELSE IF cachedReport.endTime # report.EndTime
         THEN [update |-> TRUE, isLive |-> ~isOutdated]
         ELSE IF cachedReport.isLive /\ isOutdated
              THEN [update |-> TRUE, isLive |-> FALSE]
              ELSE [update |-> FALSE, isLive |-> FALSE]

\* The switch of checkChanges: whether stats are fetched and an update is sent,
\* and with which liveness.
Decide(isInCache, cachedReport, report, isOutdated) ==
    IF ~isInCache
    THEN IF isOutdated
         THEN [update |-> FALSE, isLive |-> FALSE]
         ELSE [update |-> TRUE, isLive |-> TRUE]
    ELSE IF cachedReport.endTime # report.EndTime
         THEN [update |-> TRUE, isLive |-> ~isOutdated]
         ELSE IF cachedReport.isLive /\ isOutdated
              THEN [update |-> TRUE, isLive |-> FALSE]
              ELSE [update |-> FALSE, isLive |-> FALSE]

----------------------------------------------------------------------------
(* Contexts *)

CtxDone(c) == c \in cancelled

\* The context of one checkChanges call: WithTimeout(ctx, 1 minute).
CycleCtxDone(l) == CtxDone(l) \/ now >= loops[l].deadline

----------------------------------------------------------------------------
(* Watcher.Watch *)

\* Mutant: the loop is started whatever LoadOrStore answered.
WatchAlwaysGo(server) ==
    /\ LET r == [m |-> watched, loaded |-> server.ServerId \in DOMAIN watched] IN
        /\ watched' = IF r.loaded THEN watched ELSE watched @@ (server.ServerId :> nextCtx)
        /\ nextCtx' = nextCtx + 1
        /\ pendingGo' = pendingGo \cup {[ctx |-> nextCtx, server |-> server]}
        /\ last' = [op |-> "Watch", guild |-> server.ServerId, hit |-> r.loaded]
    /\ calls' = calls + 1
    /\ UNCHANGED <<clientVars, fetchVars, botVars, now, cancelled, pendingCancel, loops, upstream, ticks, uploads, emitted>>

\* The state of a watchLoop goroutine when it reaches its select for the first
\* time: cache created, eviction goroutine started, timer set to the jitter
\* (under 10 s, i.e. under one unit of the clock).
NewLoop(server) ==
    [server |-> server, pc |-> "select", after |-> now, deadline |-> 0,
     reports |-> << >>, report |-> NoReport, isLive |-> FALSE,
     reportsCache |-> << >>, evictor |-> TRUE, log |-> << >>]

WatchLoadOrStore(server) ==
    /\ LET r == LoadOrStore(watched, server.ServerId, nextCtx) IN
        /\ watched' = r.m
        /\ nextCtx' = nextCtx + 1
        /\ pendingGo' = IF r.loaded THEN pendingGo
                        ELSE pendingGo \cup {[ctx |-> nextCtx, server |-> server]}
        /\ last' = [op |-> "Watch", guild |-> server.ServerId, hit |-> r.loaded]
    /\ calls' = calls + 1
    /\ UNCHANGED <<clientVars, fetchVars, botVars, now, cancelled, pendingCancel, loops, upstream, ticks, uploads, emitted>>

WatchGo ==
    /\ \E p \in pendingGo :
        /\ loops' = loops @@ (p.ctx :> NewLoop(p.server))
        /\ pendingGo' = pendingGo \ {p}
    /\ UNCHANGED <<clientVars, fetchVars, botVars, now, watched, nextCtx, cancelled, pendingCancel, upstream,
                   ticks, uploads, emitted, calls, last>>

(* Watcher.Unwatch *)

UnwatchLoadAndDelete(g) ==
    /\ LET r == LoadAndDelete(watched, g) IN
        /\ watched' = r.m
        /\ pendingCancel' = IF r.loaded THEN pendingCancel \cup {r.value}
                            ELSE pendingCancel
        /\ last' = [op |-> "Unwatch", guild |-> g, hit |-> r.loaded]
    /\ calls' = calls + 1
    /\ UNCHANGED <<clientVars, fetchVars, botVars, now, nextCtx, cancelled, pendingGo, loops, upstream, ticks, uploads, emitted>>

\* Mutant: the loaded cancel function is dropped without being called.
UnwatchForgetsCancel ==
    /\ \E c \in pendingCancel : pendingCancel' = pendingCancel \ {c}
    /\ UNCHANGED <<clientVars, fetchVars, botVars, now, watched, nextCtx, cancelled, pendingGo, loops, upstream,
                   ticks, uploads, emitted, calls, last>>

\* Unwatch, second half: cancel() of the loaded context.
UnwatchCancel ==
    /\ \E c \in pendingCancel :
        /\ cancelled' = cancelled \cup {c}
        /\ pendingCancel' = pendingCancel \ {c}
    /\ UNCHANGED <<clientVars, fetchVars, botVars, now, watched, nextCtx, pendingGo, loops, upstream, ticks, uploads,
                   emitted, calls, last>>

----------------------------------------------------------------------------
(* Watcher.watchLoop *)

Others == <<clientVars, fetchVars, botVars, now, watched, nextCtx, cancelled, pendingGo, pendingCancel,
            upstream, ticks, uploads, calls, last>>

At(l, pc) == l \in DOMAIN loops /\ loops[l].pc = pc

\* case <-ctx.Done(): return
LoopDone(l) ==
    /\ At(l, "select")
    /\ CtxDone(l)
    /\ loops' = [loops EXCEPT ![l].pc = "stopped"]
    /\ UNCHANGED <<Others, emitted>>

\* case <-after: w.checkChanges(...) begins; its context gets its deadline.
LoopAfter(l) ==
    /\ At(l, "select")
    /\ now >= loops[l].after
    /\ loops' = [loops EXCEPT ![l].pc = "FindReports",
                              ![l].deadline = now + CycleTimeout]
    /\ UNCHANGED <<Others, emitted>>

\* checkChanges returns: after = time.After(1 * time.Minute)
EndCycle(rec) ==
    [rec EXCEPT !.pc = "select", !.after = now + PollInterval, !.deadline = 0,
                !.reports = << >>, !.report = NoReport, !.isLive = FALSE,
                !.log = << >>]

(* Watcher.checkChanges *)

\* FindReports answers: the reports are filtered and the range loop starts.
FindReportsOk(l) ==
    /\ At(l, "FindReports")
    /\ ~CycleCtxDone(l)
    /\ loops' = [loops EXCEPT ![l].pc = "range",
                              ![l].reports = deleteNonRaid(upstream)]
    /\ UNCHANGED <<Others, emitted>>

\* Mutant: the error return leaves watchLoop, not only checkChanges.
FindReportsErrStops(l) ==
    /\ At(l, "FindReports")
    /\ loops' = [loops EXCEPT ![l] = [EndCycle(@) EXCEPT !.pc = "stopped"]]
    /\ UNCHANGED <<Others, emitted>>

\* FindReports fails (always so under a done context): checkChanges returns.
FindReportsErr(l) ==
    /\ At(l, "FindReports")
    /\ loops' = [loops EXCEPT ![l] = EndCycle(@)]
    /\ UNCHANGED <<Others, emitted>>

\* One iteration of `for _, report := range reports` up to the switch; the
\* range being exhausted ends checkChanges.
RangeNext(l) ==
    /\ At(l, "range")
    /\ LET rec == loops[l] IN
       IF rec.reports = << >>
       THEN loops' = [loops EXCEPT ![l] = EndCycle(rec)]
       ELSE LET report == Head(rec.reports)
                isOutdated == IsOutdated(report, now)
                got == CacheGet(rec.reportsCache, report.Code, now)
                d == Decide(got.found, got.item, report, isOutdated)
            IN loops' = [loops EXCEPT
                   ![l].reports = Tail(rec.reports),
                   ![l].reportsCache = got.cache,
                   ![l].report = IF d.update THEN report ELSE NoReport,
                   ![l].isLive = d.isLive,
                   ![l].pc = IF d.update THEN "TopDeaths" ELSE "range",
                   ![l].log = Append(rec.log, <<"Get", report.Code>>)]
    /\ UNCHANGED <<Others, emitted>>

\* TopDeathsForReport answers.
TopDeathsOk(l) ==
    /\ At(l, "TopDeaths")
    /\ ~CycleCtxDone(l)
    /\ loops' = [loops EXCEPT ![l].pc = "sendUpdate",
                              ![l].log = Append(@, <<"TopDeaths", loops[l].report.Code>>)]
    /\ UNCHANGED <<Others, emitted>>

\* Mutant: after the failed fetch the cache entry is written all the same.
TopDeathsErrCaches(l) ==
    /\ At(l, "TopDeaths")
    /\ loops' = [loops EXCEPT ![l].pc = "Set",
                              ![l].log = Append(@, <<"TopDeathsErr", loops[l].report.Code>>)]
    /\ UNCHANGED <<Others, emitted>>

\* TopDeathsForReport fails (always so under a done context): continue.
TopDeathsErr(l) ==
    /\ At(l, "TopDeaths")
    /\ loops' = [loops EXCEPT ![l].pc = "range", ![l].report = NoReport,
                              ![l].isLive = FALSE,
                              ![l].log = Append(@, <<"TopDeathsErr", loops[l].report.Code>>)]
    /\ UNCHANGED <<Others, emitted>>

(* Watcher.sendUpdate *)

\* select { case <-ctx.Done(): return; default: }
SendUpdateSelect(l) ==
    /\ At(l, "sendUpdate")
    /\ loops' = [loops EXCEPT ![l].pc = IF CycleCtxDone(l) THEN "Set" ELSE "handler"]
    /\ UNCHANGED <<Others, emitted>>

\* w.handler(StatsEvent{...})
SendUpdateHandler(l) ==
    /\ At(l, "handler")
    /\ emitted' = Append(emitted, StatsEvent(loops[l].server, loops[l].report, loops[l].isLive))
    /\ loops' = [loops EXCEPT ![l].pc = "Set",
                              ![l].log = Append(@, <<"handler", loops[l].report.Code,
                                                     loops[l].report.EndTime, loops[l].isLive>>)]
    /\ UNCHANGED Others

\* reportsCache.Set(report.Code, lr, ttlcache.DefaultTTL)
ReportsCacheSet(l) ==
    /\ At(l, "Set")
    /\ LET rec == loops[l] IN
       loops' = [loops EXCEPT
           ![l].reportsCache = CacheSet(rec.reportsCache, rec.report.Code,
                                        rec.report.EndTime, rec.isLive, now),
           ![l].pc = "range", ![l].report = NoReport, ![l].isLive = FALSE,
           ![l].log = Append(rec.log, <<"Set", rec.report.Code, rec.report.EndTime,
                                        rec.isLive>>)]
    /\ UNCHANGED <<Others, emitted>>

\* The eviction goroutine of the loop's cache removes the expired items.
Evict(l) ==
    /\ l \in DOMAIN loops
    /\ loops[l].evictor
    /\ CacheDeleteExpired(loops[l].reportsCache, now) # loops[l].reportsCache
    /\ loops' = [loops EXCEPT ![l].reportsCache = CacheDeleteExpired(@, now)]
    /\ UNCHANGED <<Others, emitted>>

LoopStep(l) ==
    \/ LoopDone(l)
    \/ LoopAfter(l)
    \/ FindReportsOk(l)
    \/ FindReportsErr(l)
    \/ RangeNext(l)
    \/ TopDeathsOk(l)
    \/ TopDeathsErr(l)
    \/ SendUpdateSelect(l)
    \/ SendUpdateHandler(l)
    \/ ReportsCacheSet(l)

----------------------------------------------------------------------------
(* Environment *)

Tick(d) ==
    /\ ticks < MaxTicks
    /\ now' = now + d
    /\ ticks' = ticks + 1
    /\ UNCHANGED <<clientVars, fetchVars, botVars, watched, nextCtx, cancelled, pendingGo, pendingCancel, loops,
                   upstream, uploads, emitted, calls, last>>

\* New data is uploaded to a report: its end time moves to the present.
Upload(i) ==
    /\ i \in DOMAIN upstream
    /\ uploads < MaxUploads
    /\ upstream[i].EndTime # now
    /\ upstream' = [upstream EXCEPT ![i].EndTime = now]
    /\ uploads' = uploads + 1
    /\ UNCHANGED <<clientVars, fetchVars, botVars, now, watched, nextCtx, cancelled, pendingGo, pendingCancel,
                   loops, ticks, emitted, calls, last>>

----------------------------------------------------------------------------
(* Spec: the supervisor over two guilds; the log service holds one report  *)
(* and the clock stands still, so every loop runs one cycle.               *)

Guilds == {"g1", "g2"}
Servers == {Server("g1", "c1"), Server("g1", "c2"), Server("g2", "c1")}
Ctxs == 1..(MaxOps + 1)

InitWatcher ==
    /\ now = 0
    /\ watched = << >>
    /\ nextCtx = 1
    /\ cancelled = {}
    /\ pendingGo = {}
    /\ pendingCancel = {}
    /\ loops = << >>
    /\ ticks = 0
    /\ uploads = 0
    /\ emitted = << >>
    /\ calls = 0
    /\ last = NoCall

Init ==
    /\ InitWatcher
    /\ ClientIdle
    /\ BotIdle
    /\ FetchIdle
    /\ upstream = <<Report("ABC", 0, Mythic20)>>

Next ==
    \/ calls < MaxOps /\ \E s \in Servers : WatchLoadOrStore(s)
    \/ WatchGo
    \/ calls < MaxOps /\ \E g \in Guilds : UnwatchLoadAndDelete(g)
    \/ UnwatchCancel
    \/ \E l \in Ctxs : LoopStep(l)

Spec == Init /\ [][Next]_vars

----------------------------------------------------------------------------
(* SpecPoll: one guild that is configured once and may be removed; the     *)
(* clock runs, reports receive uploads, and the log service answers with   *)
(* one of several report lists.                                            *)

PollServer == Server("g1", "c1")

PollUpstreams ==
    { <<Report("ABC", 0, Mythic20)>>,
      <<Report("XYZ", 0, HeroicFlex), Report("ABC", 0, NormalThenMythic)>> }

InitPoll ==
    /\ InitWatcher
    /\ ClientIdle
    /\ BotIdle
    /\ FetchIdle
    /\ upstream \in PollUpstreams

NextPoll ==
    \/ nextCtx = 1 /\ WatchLoadOrStore(PollServer)
    \/ WatchGo
    \/ last.op = "Watch" /\ UnwatchLoadAndDelete(PollServer.ServerId)
    \/ UnwatchCancel
    \/ \E l \in Ctxs : LoopStep(l)
    \/ Tick(PollInterval)
    \/ Tick(OutdatedAfter)
    \/ \E i \in 1..2 : Upload(i)

SpecPoll == InitPoll /\ [][NextPoll]_vars

----------------------------------------------------------------------------
(* Claims about the supervisor, under Spec *)

\* The contexts of guild g's loops, started or about to be started by a Watch
\* call that is past its LoadOrStore.
CtxsOf(g) ==
    {l \in DOMAIN loops : loops[l].server.ServerId = g}
        \cup {p.ctx : p \in {q \in pendingGo : q.server.ServerId = g}}

\* The contexts an Unwatch call has taken out of the registry.
Unwatched == cancelled \cup pendingCancel

\* The configuration the loop of context c runs, or will run, with.
ServerOf(c) ==
    IF c \in DOMAIN loops THEN loops[c].server
    ELSE (CHOOSE p \in pendingGo : p.ctx = c).server

IsWatchCall(g) == calls' = calls + 1 /\ last'.op = "Watch" /\ last'.guild = g
IsUnwatchCall(g) == calls' = calls + 1 /\ last'.op = "Unwatch" /\ last'.guild = g

C1_OneLoopPerWatchedGuild ==
    \A g \in DOMAIN watched : CtxsOf(g) \ Unwatched = {watched[g]}

C1_LaterWatchChangesNothing ==
    \A g \in DOMAIN watched :
        IsWatchCall(g) =>
            /\ last'.hit
            /\ watched' = watched
            /\ loops' = loops
            /\ pendingGo' = pendingGo
            /\ cancelled' = cancelled
            /\ pendingCancel' = pendingCancel
            /\ ServerOf(watched[g])' = ServerOf(watched[g])

\* C1: however many Watch calls are made for a guild g with no Unwatch(g) in
\* between, exactly one poll loop is started for g (the loops of g that no
\* Unwatch has taken are exactly the registered one), and every call after the
\* first starts no loop and leaves the registered cancel func and the running
\* loop's configuration as they are.
C1_WatchIsIdempotent ==
    /\ []C1_OneLoopPerWatchedGuild
    /\ [][C1_LaterWatchChangesNothing]_vars

\* A second Watch for a watched guild, with another configuration, has been
\* made while the loop of the first runs with its own configuration.
C1_Witness ==
    /\ last = [op |-> "Watch", guild |-> "g1", hit |-> TRUE]
    /\ calls = 2
    /\ "g1" \in DOMAIN watched
    /\ watched["g1"] \in DOMAIN loops
    /\ loops[watched["g1"]].pc = "TopDeaths"
    /\ Cardinality(CtxsOf("g1")) = 1

\* C2 as stated: at most one poll loop that has not terminated per guild.
C2_AtMostOneUnterminatedLoop ==
    \A g \in Guilds :
        Cardinality({l \in DOMAIN loops :
            loops[l].server.ServerId = g /\ loops[l].pc # "stopped"}) <= 1

\* C2, amended: per guild at most one poll loop that has not terminated is
\* still in the registry, and it is the registered one; every other such loop
\* has been taken out of the registry by an Unwatch, which has cancelled it or
\* is about to.
C2_AtMostOneRegisteredLoop ==
    \A g \in Guilds :
        LET live == {l \in DOMAIN loops :
                        /\ loops[l].server.ServerId = g
                        /\ loops[l].pc # "stopped"
                        /\ l \notin Unwatched}
        IN /\ Cardinality(live) <= 1
           /\ \A l \in live : g \in DOMAIN watched /\ watched[g] = l

\* Unwatch(g) then Watch(g): the loop of the first Watch is cancelled and still
\* inside a poll cycle while the loop of the second Watch runs.
C2_Witness ==
    \E l1, l2 \in DOMAIN loops :
        /\ l1 # l2
        /\ loops[l1].server.ServerId = loops[l2].server.ServerId
        /\ l1 \in cancelled
        /\ loops[l1].pc = "TopDeaths"
        /\ loops[l2].pc # "stopped"
        /\ watched = (loops[l2].server.ServerId :> l2)

C3_UnwatchFrame ==
    \A g \in Guilds :
        IsUnwatchCall(g) =>
            /\ loops' = loops
            /\ pendingGo' = pendingGo
            /\ cancelled' = cancelled
            /\ IF g \in DOMAIN watched
               THEN /\ last'.hit
                    /\ DOMAIN watched' = DOMAIN watched \ {g}
                    /\ \A h \in DOMAIN watched' : watched'[h] = watched[h]
                    /\ pendingCancel' = pendingCancel \cup {watched[g]}
               ELSE /\ ~last'.hit
                    /\ watched' = watched
                    /\ pendingCancel' = pendingCancel

C3_CancelFrame ==
    cancelled' # cancelled =>
        /\ \E c \in pendingCancel : cancelled' = cancelled \cup {c}
        /\ \A l \in DOMAIN loops : loops'[l] = loops[l]
        /\ watched' = watched

\* C3: Unwatch(g) for a guild that is not in the registry changes nothing;
\* Unwatch(g) for a watched guild removes g's entry only and cancels g's context
\* only: the entries and the loops of every other guild are left as they are,
\* and a context that is in the registry is never cancelled.
C3_UnwatchTouchesOnlyItsGuild ==
    /\ [][C3_UnwatchFrame]_vars
    /\ [][C3_CancelFrame]_vars
    /\ [](\A g \in DOMAIN watched : watched[g] \notin Unwatched)

\* Unwatch(g1) has found g1 and its loop is cancelled, while g2 stays registered
\* with its loop running inside a poll cycle.
C3_Witness ==
    /\ last = [op |-> "Unwatch", guild |-> "g1", hit |-> TRUE]
    /\ DOMAIN watched = {"g2"}
    /\ watched["g2"] \in DOMAIN loops
    /\ loops[watched["g2"]].pc = "TopDeaths"
    /\ \E l \in cancelled \cap DOMAIN loops : loops[l].server.ServerId = "g1"

----------------------------------------------------------------------------
(* Claims about one poll loop, under SpecPoll *)

InCycle(l) ==
    loops[l].pc \in {"FindReports", "range", "TopDeaths", "sendUpdate", "handler", "Set"}

C4_StopsOnlyOnCancel ==
    \A l \in DOMAIN loops :
        (loops[l].pc # "stopped" /\ loops'[l].pc = "stopped")
            => (loops[l].pc = "select" /\ CtxDone(l))

C4_CycleReturnsToSelect ==
    \A l \in DOMAIN loops :
        (InCycle(l) /\ loops'[l].pc \notin {loops[l].pc, "select"}) => InCycle(l)'

C4_NeverStuck ==
    \A l \in DOMAIN loops :
        /\ InCycle(l) => ENABLED LoopStep(l)
        /\ (loops[l].pc = "select" /\ ~CtxDone(l))
               => loops[l].after <= now + PollInterval

\* C4: a poll loop leaves its select loop only on observing that its context
\* is cancelled; whatever a cycle meets (the listing fails, a stats fetch fails,
\* the cycle's timeout passes) the loop can always take its next step, a cycle
\* ends only back in the select, and there the timer of the next cycle is armed.
C4_LoopExitsOnlyOnCancel ==
    /\ [][C4_StopsOnlyOnCancel]_vars
    /\ [][C4_CycleReturnsToSelect]_vars
    /\ []C4_NeverStuck

\* The loop is back in its select, its context not cancelled, right after a
\* cycle that ended one minute into the run without having cached or emitted
\* the fresh report the log service holds: the listing or the stats fetch
\* failed or the cycle's timeout passed.
C4_Witness ==
    \E l \in DOMAIN loops :
        /\ loops[l].pc = "select"
        /\ ~CtxDone(l)
        /\ loops[l].after = now + PollInterval
        /\ now = 1
        /\ uploads = 0
        /\ loops[l].reportsCache = << >>
        /\ emitted = << >>

\* The step is an iteration of the range loop of checkChanges in loop l.
IsRangeNext(l) ==
    /\ loops[l].pc = "range"
    /\ loops[l].reports # << >>
    /\ Len(loops'[l].log) = Len(loops[l].log) + 1

\* The report the iteration looks at has a cache entry with the polled end
\* time, and it is not the case that the entry is live and the report outdated.
Unchanged(l) ==
    LET report == Head(loops[l].reports)
        cache == loops[l].reportsCache
    IN /\ CacheHas(cache, report.Code, now)
       /\ cache[report.Code].endTime = report.EndTime
       /\ ~(cache[report.Code].isLive /\ IsOutdated(report, now))

C6_NoUpdateStep ==
    \A l \in DOMAIN loops :
        (IsRangeNext(l) /\ Unchanged(l)) =>
            LET code == Head(loops[l].reports).Code IN
            /\ loops'[l].pc = "range"
            /\ loops'[l].log = Append(loops[l].log, <<"Get", code>>)
            /\ emitted' = emitted
            /\ code \in DOMAIN loops'[l].reportsCache
            /\ loops'[l].reportsCache[code].endTime = loops[l].reportsCache[code].endTime
            /\ loops'[l].reportsCache[code].isLive = loops[l].reportsCache[code].isLive

\* C6: in every poll cycle, a report whose cache entry has the polled end time
\* and whose liveness is unchanged (not: cached live and now outdated) gets no
\* stats fetch and no update, and the value of its cache entry is not rewritten.
C6_NoSpuriousUpdate == [][C6_NoUpdateStep]_vars

\* A cycle has just passed over a report that is cached as not live with the
\* polled end time and is outdated.
C6_Witness ==
    \E l \in DOMAIN loops :
        /\ loops[l].pc = "range"
        /\ loops[l].log # << >>
        /\ \E i \in DOMAIN upstream :
            LET report == upstream[i] IN
            /\ loops[l].log[Len(loops[l].log)] = <<"Get", report.Code>>
            /\ report.Code \in DOMAIN loops[l].reportsCache
            /\ loops[l].reportsCache[report.Code].endTime = report.EndTime
            /\ ~loops[l].reportsCache[report.Code].isLive
            /\ IsOutdated(report, now)

SameReport(e1, e2) ==
    e1.ReportId = e2.ReportId /\ e1.Server.ServerId = e2.Server.ServerId

\* C7 as stated: the first update emitted for a report is a live one, and once
\* an offline update has been emitted for a report no later update is live.
C7_LiveThenUpdatedThenOffline ==
    \A j \in DOMAIN emitted :
        /\ (\A i \in 1..(j - 1) : ~SameReport(emitted[i], emitted[j])) => emitted[j].Live
        /\ \A i \in 1..(j - 1) :
              (SameReport(emitted[i], emitted[j]) /\ ~emitted[i].Live) => ~emitted[j].Live

C7_LiveAgainOnlyWithLaterEndTime ==
    \A j \in DOMAIN emitted : \A i \in 1..(j - 1) :
        (SameReport(emitted[i], emitted[j]) /\ ~emitted[i].Live /\ emitted[j].Live)
            => emitted[j].LastUpload > emitted[i].LastUpload

C7_OfflineOnlyForCachedReport ==
    \A l \in DOMAIN loops :
        /\ (IsRangeNext(l) /\ loops'[l].pc = "TopDeaths" /\ ~loops'[l].isLive)
              => CacheHas(loops[l].reportsCache, loops'[l].report.Code, now)
        /\ (loops[l].pc = "handler" /\ loops'[l].pc # "handler")
              => emitted' = Append(emitted,
                     StatsEvent(loops[l].server, loops[l].report, loops[l].isLive))

\* C7, amended: a loop decides an offline update (Live=false) for a report only
\* while it holds a cache entry for it, so the first update it decides for a
\* report is a live one, and every update is emitted with the liveness decided;
\* after an offline update, a live update is emitted again for the report only
\* with a later end time, so the order live, updated, offline may repeat.
C7_OrderOfUpdates ==
    /\ []C7_LiveAgainOnlyWithLaterEndTime
    /\ [][C7_OfflineOnlyForCachedReport]_vars

\* An offline update for a report has been followed by a live one.
C7_Witness ==
    \E j \in DOMAIN emitted : \E i \in 1..(j - 1) :
        SameReport(emitted[i], emitted[j]) /\ ~emitted[i].Live /\ emitted[j].Live

\* C10 as stated: whenever a cycle has written a report's cache entry (its stats
\* fetch succeeded, the update is decided), the handler has been invoked exactly
\* once in that cycle for that report, with the end time and liveness written.
C10_HandlerOncePerDecidedUpdate ==
    \A l \in DOMAIN loops : \A i \in DOMAIN loops[l].log :
        LET entry == loops[l].log[i] IN
        entry[1] = "Set" =>
            Cardinality({j \in 1..i :
                loops[l].log[j] = <<"handler", entry[2], entry[3], entry[4]>>}) = 1

----------------------------------------------------------------------------
(* Termination of a loop after Unwatch, under SpecLive *)

\* The Go scheduler runs every goroutine that can run: a caller of Unwatch
\* reaches its cancel(), a `go` statement starts its goroutine, and a loop
\* whose next step is possible takes it (network calls return once their
\* context is done: then only the error outcome remains).
Fairness ==
    /\ WF_vars(UnwatchCancel)
    /\ WF_vars(WatchGo)
    /\ \A l \in Ctxs : WF_vars(LoopStep(l))

\* One guild is watched and then unwatched while its loop polls and the
\* clock advances.
NextLive ==
    \/ nextCtx = 1 /\ WatchLoadOrStore(PollServer)
    \/ WatchGo
    \/ last.op = "Watch" /\ UnwatchLoadAndDelete(PollServer.ServerId)
    \/ UnwatchCancel
    \/ \E l \in Ctxs : LoopStep(l)
    \/ Tick(PollInterval)

SpecLive == Init /\ [][NextLive]_vars /\ Fairness

Stopped(c) == c \in DOMAIN loops /\ loops[c].pc = "stopped"

\* C5: once Unwatch has taken a guild's context out of the map, the loop of
\* that context eventually terminates, wherever the loop is at that moment.
C5_UnwatchedLoopTerminates ==
    \A c \in Ctxs : (c \in pendingCancel) ~> Stopped(c)

\* A loop that has run a poll cycle was unwatched and has terminated.
C5_Witness ==
    \E c \in cancelled :
        /\ Stopped(c)
        /\ loops[c].after = now + PollInterval
        /\ ServerOf(c).ServerId \notin DOMAIN watched

----------------------------------------------------------------------------
(* SpecTrace: the life of one report, every fetch succeeding *)

TraceCode == "ABC"

TraceReport == upstream[CHOOSE i \in DOMAIN upstream : upstream[i].Code = TraceCode]

Waiting(l) == l \in DOMAIN loops /\ loops[l].pc = "select"

\* A timer tick starts a cycle; the second update of the scenario is for a
\* new end time, so the polls after the first update wait for the upload.
TraceLoopAfter(l) ==
    /\ Len(emitted) = 1 => uploads = 1
    /\ LoopAfter(l)

\* Time passes between two cycles, one minute or long enough for the report
\* to become outdated, which in the scenario happens only to a report whose
\* second update has been emitted.
TraceTick(d) ==
    /\ \E l \in Ctxs : Waiting(l)
    /\ (now + d) - TraceReport.EndTime > OutdatedAfter => Len(emitted) >= 2
    /\ Tick(d)

\* The one upload of the scenario, between the first and the second update.
TraceUpload(i) ==
    /\ \E l \in Ctxs : Waiting(l)
    /\ Len(emitted) = 1
    /\ upstream[i].Code = TraceCode
    /\ uploads = 0
    /\ Upload(i)

InitTrace ==
    /\ InitWatcher
    /\ ClientIdle
    /\ BotIdle
    /\ FetchIdle
    /\ upstream \in PollUpstreams

NextTrace ==
    \/ nextCtx = 1 /\ WatchLoadOrStore(PollServer)
    \/ WatchGo
    \/ \E l \in Ctxs : TraceLoopAfter(l)
    \/ \E l \in Ctxs : FindReportsOk(l)
    \/ \E l \in Ctxs : RangeNext(l)
    \/ \E l \in Ctxs : TopDeathsOk(l)
    \/ \E l \in Ctxs : SendUpdateSelect(l)
    \/ \E l \in Ctxs : SendUpdateHandler(l)
    \/ \E l \in Ctxs : ReportsCacheSet(l)
    \/ \E d \in {PollInterval, OutdatedAfter + PollInterval} : TraceTick(d)
    \/ \E i \in DOMAIN upstream : TraceUpload(i)

SpecTrace == InitTrace /\ [][NextTrace]_vars

\* The cache of a loop between two cycles holds what the last update said.
CacheHolds(l) ==
    LET cache == loops[l].reportsCache IN
    IF emitted = << >> THEN cache = << >>
    ELSE /\ DOMAIN cache = {TraceCode}
         /\ cache[TraceCode].endTime = emitted[Len(emitted)].LastUpload
         /\ cache[TraceCode].isLive = emitted[Len(emitted)].Live

\* C8: the updates emitted are, in this order, a live one with the first end
\* time T0, a live one with a later end time T1 and an offline one with T1, at
\* most one per cycle and three in total; between two cycles the cache holds
\* the end time and liveness of the last update, so that a poll returning the
\* same values after the third update emits nothing and changes nothing.
C8_EndToEndTrace ==
    /\ Len(emitted) <= 3
    /\ \A i \in DOMAIN emitted :
          emitted[i].ReportId = TraceCode /\ emitted[i].Server = PollServer
    /\ Len(emitted) >= 1 => (emitted[1].Live /\ emitted[1].LastUpload = 0)
    /\ Len(emitted) >= 2 => (emitted[2].Live /\ emitted[2].LastUpload > emitted[1].LastUpload)
    /\ Len(emitted) >= 3 => (~emitted[3].Live /\ emitted[3].LastUpload = emitted[2].LastUpload)
    /\ \A l \in DOMAIN loops :
          /\ Cardinality({i \in DOMAIN loops[l].log : loops[l].log[i][1] = "handler"}) <= 1
          /\ Waiting(l) => CacheHolds(l)

\* The three updates are out and a later cycle has passed over the report
\* without a fetch; the cache still says not live.
C8_Witness ==
    \E l \in DOMAIN loops :
        /\ Len(emitted) = 3
        /\ loops[l].pc = "range"
        /\ loops[l].reports = << >>
        /\ loops[l].log = << <<"Get", TraceCode>> >>
        /\ ~loops[l].reportsCache[TraceCode].isLive
        /\ loops[l].reportsCache[TraceCode].endTime = TraceReport.EndTime

----------------------------------------------------------------------------
(* SpecFilter: one poll cycle over every short list of reports *)

Codes == {"ABC", "XYZ", "QRS"}

ZoneDifficulties ==
    {Mythic20, HeroicFlex, MythicFlex, NormalThenMythic, Mythic25, NoDifficulties}

\* The lists the log service can return: report codes are unique.
ReportLists ==
    {rs \in UNION {[1..n -> {Report(c, 0, z) : c \in Codes, z \in ZoneDifficulties}] :
                      n \in 0..MaxReports} :
        \A i, j \in DOMAIN rs : i # j => rs[i].Code # rs[j].Code}

InitFilter ==
    /\ InitWatcher
    /\ ClientIdle
    /\ BotIdle
    /\ FetchIdle
    /\ upstream \in ReportLists

NextFilter ==
    \/ nextCtx = 1 /\ WatchLoadOrStore(PollServer)
    \/ WatchGo
    \/ \E l \in Ctxs : LoopAfter(l)
    \/ \E l \in Ctxs : FindReportsOk(l)
    \/ \E l \in Ctxs : FindReportsErr(l)
    \/ \E l \in Ctxs : RangeNext(l)
    \/ \E l \in Ctxs : TopDeathsOk(l)
    \/ \E l \in Ctxs : TopDeathsErr(l)
    \/ \E l \in Ctxs : SendUpdateSelect(l)
    \/ \E l \in Ctxs : SendUpdateHandler(l)
    \/ \E l \in Ctxs : ReportsCacheSet(l)

SpecFilter == InitFilter /\ [][NextFilter]_vars

\* The report has a difficulty named "Mythic" whose size list is exactly [20].
Qualifies(report) ==
    \E i \in DOMAIN report.Difficulties :
        report.Difficulties[i] = [Name |-> "Mythic", Sizes |-> <<20>>]

\* The codes of the polled reports that do not qualify.
Excluded == {upstream[i].Code : i \in {k \in DOMAIN upstream : ~Qualifies(upstream[k])}}

\* Position of a report in the polled list.
IndexOf(report) == CHOOSE i \in DOMAIN upstream : upstream[i] = report

C9_FilterKeepsQualifying ==
    LET kept == deleteNonRaid(upstream) IN
    /\ \A i \in DOMAIN kept : kept[i] \in {upstream[k] : k \in DOMAIN upstream}
    /\ \A k \in DOMAIN upstream :
          Qualifies(upstream[k]) <=> (\E i \in DOMAIN kept : kept[i] = upstream[k])
    /\ \A i, j \in DOMAIN kept : i < j => IndexOf(kept[i]) < IndexOf(kept[j])
    /\ deleteNonRaid(kept) = kept

C9_ExcludedDownstream ==
    \A l \in DOMAIN loops :
        /\ \A i \in DOMAIN loops[l].reports : loops[l].reports[i].Code \notin Excluded
        /\ loops[l].report.Code \notin Excluded
        /\ \A i \in DOMAIN loops[l].log : loops[l].log[i][2] \notin Excluded
        /\ DOMAIN loops[l].reportsCache \cap Excluded = {}
        /\ \A i \in DOMAIN emitted : emitted[i].ReportId \notin Excluded

\* C9: the filter keeps exactly the reports that have a difficulty named
\* "Mythic" with size list [20], in their original order, and filtering twice
\* equals filtering once; for every other polled report the cycle reads and
\* writes no cache entry, makes no stats fetch and emits no update.
C9_NonRaidReportsExcluded == C9_FilterKeepsQualifying /\ C9_ExcludedDownstream

\* A cycle has ended its range loop having emitted and cached the qualifying
\* report that was listed after a Mythic report of another size list.
C9_Witness ==
    \E l \in DOMAIN loops :
        /\ Len(upstream) = 2
        /\ upstream[1].Difficulties = MythicFlex
        /\ Qualifies(upstream[2])
        /\ loops[l].pc = "range"
        /\ loops[l].reports = << >>
        /\ Len(emitted) = 1
        /\ DOMAIN loops[l].reportsCache = {upstream[2].Code}

----------------------------------------------------------------------------
(* warcraftlogs.Client: ensureToken, refreshToken, getToken *)

TokenSkew == 1

\* expires_in of a token response: not beyond the skew, or well beyond it.
TokenLifetimes == {1, 3}

\* tok != "" && time.Now().Add(tokenSkew).Before(exp)
TokenFresh(tok, exp, t) == tok # 0 /\ t + TokenSkew < exp

NewCaller(op) ==
    [op |-> op, pc |-> "ensureToken", tok |-> 0, exp |-> 0, from401 |-> FALSE,
     sent |-> << >>, responses |-> << >>, seen |-> 0, result |-> "none"]

Calling(p, pc) == p \in DOMAIN callers /\ callers[p].pc = pc

\* Where a caller goes when ensureToken / refreshToken returns.
AfterToken(rec, ok) ==
    LET r == [rec EXCEPT !.tok = 0, !.exp = 0] IN
    IF r.op = "ensureToken"
    THEN [r EXCEPT !.pc = "done", !.result = IF ok THEN "ok" ELSE "err"]
    ELSE IF ok
         THEN [r EXCEPT !.pc = "doOnce"]
         ELSE [r EXCEPT !.pc = "done",
                        !.result = IF r.from401 THEN "refreshErr" ELSE "ensureErr"]

\* ensureToken: the token and its expiry are read under the read lock.
EnsureTokenRead(p) ==
    /\ Calling(p, "ensureToken")
    /\ mu = NoCaller
    /\ callers' = [callers EXCEPT ![p].tok = token, ![p].exp = expiresAt,
                                  ![p].pc = "ensureCheck"]
    /\ UNCHANGED <<watcherVars, botVars, fetchVars, token, expiresAt, mu, exchanges>>

\* ensureToken: return nil if the token read is fresh, else refreshToken.
EnsureTokenCheck(p) ==
    /\ Calling(p, "ensureCheck")
    /\ callers' = [callers EXCEPT ![p] =
           IF TokenFresh(@.tok, @.exp, now) THEN AfterToken(@, TRUE)
           ELSE [@ EXCEPT !.pc = "Lock"]]
    /\ UNCHANGED <<watcherVars, botVars, fetchVars, token, expiresAt, mu, exchanges>>

\* refreshToken: c.mu.Lock()
RefreshTokenLock(p) ==
    /\ Calling(p, "Lock")
    /\ mu = NoCaller
    /\ mu' = p
    /\ callers' = [callers EXCEPT ![p].pc = "refreshCheck"]
    /\ UNCHANGED <<watcherVars, botVars, fetchVars, token, expiresAt, exchanges>>

\* Mutant: refreshToken exchanges without looking at the token again.
RefreshTokenNoCheck(p) ==
    /\ Calling(p, "refreshCheck")
    /\ callers' = [callers EXCEPT ![p].pc = "getToken"]
    /\ UNCHANGED <<watcherVars, botVars, fetchVars, token, expiresAt, mu, exchanges>>

\* refreshToken: the check again, now under the write lock.
RefreshTokenCheck(p) ==
    /\ Calling(p, "refreshCheck")
    /\ IF TokenFresh(token, expiresAt, now)
       THEN /\ mu' = NoCaller
            /\ callers' = [callers EXCEPT ![p] = AfterToken(@, TRUE)]
       ELSE /\ mu' = mu
            /\ callers' = [callers EXCEPT ![p].pc = "getToken"]
    /\ UNCHANGED <<watcherVars, botVars, fetchVars, token, expiresAt, exchanges>>

\* What the history keeps of one token exchange.
Exchange(p, ok, lifetime) ==
    [caller |-> p, from |-> token, fromExp |-> expiresAt, at |-> now,
     ok |-> ok, lifetime |-> lifetime]

\* getToken answers with a token: it is stored, the lock is released.
GetTokenOk(p, lifetime) ==
    /\ Calling(p, "getToken")
    /\ token' = Len(exchanges) + 2
    /\ expiresAt' = now + lifetime
    /\ mu' = NoCaller
    /\ exchanges' = Append(exchanges, Exchange(p, TRUE, lifetime))
    /\ callers' = [callers EXCEPT ![p] = AfterToken(@, TRUE)]
    /\ UNCHANGED <<watcherVars, botVars, fetchVars>>

\* getToken fails: nothing is stored, the lock is released.
GetTokenErr(p) ==
    /\ Calling(p, "getToken")
    /\ mu' = NoCaller
    /\ exchanges' = Append(exchanges, Exchange(p, FALSE, 0))
    /\ callers' = [callers EXCEPT ![p] = AfterToken(@, FALSE)]
    /\ UNCHANGED <<watcherVars, botVars, fetchVars, token, expiresAt>>

TokenStep(p) ==
    \/ EnsureTokenRead(p)
    \/ EnsureTokenCheck(p)
    \/ RefreshTokenLock(p)
    \/ RefreshTokenCheck(p)
    \/ \E lifetime \in TokenLifetimes : GetTokenOk(p, lifetime)
    \/ GetTokenErr(p)

\* The token a constructed client holds: issued by NewClient, it may be
\* expired, within the skew or fresh by now, and it may be the empty string.
InitialTokens == {<<1, 0>>, <<1, 1>>, <<1, 3>>, <<0, 3>>}

InitClient(n, op) ==
    /\ InitWatcher
    /\ upstream = << >>
    /\ FetchIdle
    /\ BotIdle
    /\ \E t \in InitialTokens : token = t[1] /\ expiresAt = t[2]
    /\ mu = NoCaller
    /\ callers = [p \in 1..n |-> NewCaller(op)]
    /\ exchanges = << >>

(* SpecToken: concurrent callers of ensureToken while the clock advances *)

InitToken == InitClient(MaxCallers, "ensureToken")

NextToken ==
    \/ \E p \in 1..MaxCallers : TokenStep(p)
    \/ Tick(TokenSkew)

SpecToken == InitToken /\ [][NextToken]_vars

----------------------------------------------------------------------------
(* Claims about the token, under SpecToken *)

AllDone == \A p \in DOMAIN callers : callers[p].pc = "done"

\* The stored token an exchange replaced was empty or within the skew of its
\* expiry (or past it) when the exchange was made.
C11_ExchangeOnlyWhenStale ==
    \A i \in DOMAIN exchanges :
        exchanges[i].from = 0 \/ exchanges[i].at + TokenSkew >= exchanges[i].fromExp

\* No two successful exchanges replaced the same stored token.
C11_OneExchangePerExpiry ==
    \A i, j \in DOMAIN exchanges :
        (i < j /\ exchanges[i].ok /\ exchanges[j].ok)
            => exchanges[j].from # exchanges[i].from

\* Callers arriving together (no time passes) when every exchange succeeds with
\* a token that lasts beyond the skew: at most one exchange is made, none if
\* the token was fresh, and every caller returns success.
C11_OneExchangeForAllCallers ==
    (ticks = 0 /\ \A i \in DOMAIN exchanges :
                     exchanges[i].ok /\ exchanges[i].lifetime > TokenSkew)
        => /\ Len(exchanges) <= 1
           /\ \A i \in DOMAIN exchanges :
                 exchanges[i].from = 0 \/ now + TokenSkew >= exchanges[i].fromExp
           /\ AllDone =>
                 /\ \A p \in DOMAIN callers : callers[p].result = "ok"
                 /\ token # 0 /\ now + TokenSkew < expiresAt

\* A caller fails only if the exchange it made itself failed.
C11_CallerFailsOnlyWithItsExchange ==
    \A p \in DOMAIN callers :
        callers[p].result = "err"
            => \E i \in DOMAIN exchanges : exchanges[i].caller = p /\ ~exchanges[i].ok

\* A caller that finds the token fresh, in ensureToken or again under the
\* write lock, returns success and no exchange is made.
C11_FreshTokenIsKept ==
    \A p \in DOMAIN callers :
        /\ (callers[p].pc = "ensureCheck" /\ callers'[p] # callers[p]
               /\ callers[p].tok # 0 /\ now + TokenSkew < callers[p].exp)
              => (callers'[p].result = "ok" /\ UNCHANGED <<token, expiresAt, exchanges>>)
        /\ (callers[p].pc = "refreshCheck" /\ callers'[p] # callers[p]
               /\ token # 0 /\ now + TokenSkew < expiresAt)
              => (callers'[p].result = "ok" /\ UNCHANGED <<token, expiresAt, exchanges>>)

\* C11: with concurrent callers of ensureToken, a token exchange is made only
\* for a stored token that is empty or within 60 seconds of its expiry, a
\* caller that finds the token fresh returns without an exchange, successful
\* exchanges never replace the same token twice, callers arriving together at
\* an expired token make exactly one exchange if it succeeds and all return
\* success, and a caller fails only when its own exchange fails.
C11_OneExchangePerExpiredToken ==
    /\ []C11_ExchangeOnlyWhenStale
    /\ []C11_OneExchangePerExpiry
    /\ []C11_OneExchangeForAllCallers
    /\ []C11_CallerFailsOnlyWithItsExchange
    /\ [][C11_FreshTokenIsKept]_vars

\* Two callers met an expired token at the same instant: one exchanged it,
\* the other went through refreshToken without an exchange, both succeeded.
C11_Witness ==
    /\ ticks = 0
    /\ AllDone
    /\ Len(exchanges) = 1
    /\ exchanges[1].ok
    /\ exchanges[1].from = 1
    /\ exchanges[1].fromExp <= now
    /\ \E p \in DOMAIN callers :
          p # exchanges[1].caller /\ callers[p].result = "ok"

----------------------------------------------------------------------------
(* Client.TopDeathsForReport *)

TopN == 5

PlayerTop(name, value) == [Name |-> name, Value |-> value]

ReportDetails(top, first) == [TopDeaths |-> top, TopFirstDeaths |-> first]

\* The closure inc: count a named death, appending a player seen first.
inc(list, name) ==
    IF name = "" THEN list
    ELSE IF \E i \in DOMAIN list : list[i].Name = name
         THEN LET i == CHOOSE k \in DOMAIN list : list[k].Name = name
              IN [list EXCEPT ![i].Value = @ + 1]
         ELSE Append(list, PlayerTop(name, 1))

\* Mutant: an entry is placed before the entries of equal count.
InsertBeforeTies(sorted, x) ==
    LET k == Cardinality({i \in DOMAIN sorted : sorted[i].Value > x.Value})
    IN SubSeq(sorted, 1, k) \o <<x>> \o SubSeq(sorted, k + 1, Len(sorted))

\* An entry is placed behind the entries of larger or equal count.
InsertSorted(sorted, x) ==
    LET k == Cardinality({i \in DOMAIN sorted : sorted[i].Value >= x.Value})
    IN SubSeq(sorted, 1, k) \o <<x>> \o SubSeq(sorted, k + 1, Len(sorted))

RECURSIVE SortStable(_)
\* sort.SliceStable by Value, larger first: equal entries keep their order.
SortStable(list) ==
    IF list = << >> THEN << >>
    ELSE InsertSorted(SortStable(SubSeq(list, 1, Len(list) - 1)), list[Len(list)])

\* list[:N] if the list is longer than N.
Truncate(list) == IF Len(list) > TopN THEN SubSeq(list, 1, TopN) ELSE list

\* The players of the model in the order of their first death in the report;
\* the code looks at a name only to test it for "" and for equality.
PlayerNames == <<"Ann", "Bob", "Cid", "Dee", "Eli", "Fay", "Gus">>

\* The name of the next death event: none, a player seen, or the next player.
NextNames ==
    {""} \cup {totalDeaths[i].Name : i \in DOMAIN totalDeaths}
         \cup (IF Len(totalDeaths) < Len(PlayerNames)
               THEN {PlayerNames[Len(totalDeaths) + 1]} ELSE {})

\* GetBossFights returns no fight: an empty ReportDetails.
GetBossFightsEmpty ==
    /\ tdPc = "GetBossFights"
    /\ details' = ReportDetails(<< >>, << >>)
    /\ tdPc' = "done"
    /\ UNCHANGED <<watcherVars, botVars, clientVars, pages, deaths, pageTimestamp, pageCount,
                   queries, gdePc, totalDeaths, firstDeaths, fightNo, eventNo, firstTaken>>

\* GetBossFights or getDeathEvents fails: an empty ReportDetails and the error.
TopDeathsFails ==
    /\ tdPc \in {"GetBossFights", "fights"}
    /\ details' = ReportDetails(<< >>, << >>)
    /\ tdPc' = "failed"
    /\ UNCHANGED <<watcherVars, botVars, clientVars, pages, deaths, pageTimestamp, pageCount,
                   queries, gdePc, totalDeaths, firstDeaths, fightNo, eventNo, firstTaken>>

\* The range over the fights reaches a fight whose events were fetched.
NextFight ==
    /\ tdPc \in {"GetBossFights", "fights"}
    /\ fightNo < MaxFights
    /\ fightNo' = fightNo + 1
    /\ eventNo' = 0
    /\ firstTaken' = FALSE
    /\ tdPc' = "events"
    /\ UNCHANGED <<watcherVars, botVars, clientVars, pages, deaths, pageTimestamp, pageCount,
                   queries, gdePc, totalDeaths, firstDeaths, details>>

\* Mutant: the first event of a fight takes the first-death slot, named or not.
ProcessEventAnyFirst(name) ==
    /\ tdPc = "events"
    /\ eventNo < MaxFightEvents
    /\ eventNo' = eventNo + 1
    /\ totalDeaths' = inc(totalDeaths, name)
    /\ firstDeaths' = IF ~firstTaken THEN inc(firstDeaths, name) ELSE firstDeaths
    /\ firstTaken' = TRUE
    /\ UNCHANGED <<watcherVars, botVars, clientVars, pages, deaths, pageTimestamp, pageCount,
                   queries, gdePc, fightNo, details, tdPc>>

\* One iteration of the range over a fight's events.
ProcessEvent(name) ==
    /\ tdPc = "events"
    /\ eventNo < MaxFightEvents
    /\ eventNo' = eventNo + 1
    /\ totalDeaths' = inc(totalDeaths, name)
    /\ firstDeaths' = IF name # "" /\ ~firstTaken THEN inc(firstDeaths, name)
                      ELSE firstDeaths
    /\ firstTaken' = (firstTaken \/ name # "")
    /\ UNCHANGED <<watcherVars, botVars, clientVars, pages, deaths, pageTimestamp, pageCount,
                   queries, gdePc, fightNo, details, tdPc>>

\* The fight has no more events.
EndFight ==
    /\ tdPc = "events"
    /\ tdPc' = "fights"
    /\ UNCHANGED <<watcherVars, botVars, clientVars, pages, deaths, pageTimestamp, pageCount,
                   queries, gdePc, totalDeaths, firstDeaths, fightNo, eventNo,
                   firstTaken, details>>

\* After the last fight: both counters are sorted and cut to N entries.
SortAndReturn ==
    /\ tdPc = "fights"
    /\ details' = ReportDetails(Truncate(SortStable(totalDeaths)),
                                Truncate(SortStable(firstDeaths)))
    /\ tdPc' = "done"
    /\ UNCHANGED <<watcherVars, botVars, clientVars, pages, deaths, pageTimestamp, pageCount,
                   queries, gdePc, totalDeaths, firstDeaths, fightNo, eventNo, firstTaken>>

(* SpecTop: one call of TopDeathsForReport over every short list of fights *)

InitTop ==
    /\ InitWatcher
    /\ upstream = << >>
    /\ ClientIdle
    /\ BotIdle
    /\ EventsStart("idle", << >>)
    /\ TopDeathsStart("GetBossFights")

NextTop ==
    \/ GetBossFightsEmpty
    \/ TopDeathsFails
    \/ NextFight
    \/ \E name \in NextNames : ProcessEvent(name)
    \/ EndFight
    \/ SortAndReturn

SpecTop == InitTop /\ [][NextTop]_vars

----------------------------------------------------------------------------
(* Claims about the leaderboards, under SpecTop *)

\* Position of a player in a counter.
IndexIn(list, name) == CHOOSE i \in DOMAIN list : list[i].Name = name

\* Place of entry k of a counter in the ranking by count, larger first, the
\* entry that came into the counter earlier first among equal counts.
Rank(list, k) ==
    1 + Cardinality({i \in DOMAIN list :
            \/ list[i].Value > list[k].Value
            \/ list[i].Value = list[k].Value /\ i < k})

\* The board holds the first five entries of that ranking of the counter.
IsLeaderboard(board, list) ==
    /\ Len(board) <= 5
    /\ Len(board) = IF Len(list) > 5 THEN 5 ELSE Len(list)
    /\ \A k \in DOMAIN list : Rank(list, k) <= 5 => board[Rank(list, k)] = list[k]
    /\ \A i, j \in DOMAIN board :
          i < j => /\ board[i].Value >= board[j].Value
                   /\ board[i].Value = board[j].Value
                         => IndexIn(list, board[i].Name) < IndexIn(list, board[j].Name)

C12_Leaderboards ==
    tdPc = "done" =>
        /\ IsLeaderboard(details.TopDeaths, totalDeaths)
        /\ IsLeaderboard(details.TopFirstDeaths, firstDeaths)

\* A counter lists each player once, in the order in which the players were
\* first counted: an entry never moves and a new player is added at the end.
C12_FirstSeenOrder ==
    /\ \A i \in DOMAIN totalDeaths :
          i \in DOMAIN totalDeaths' /\ totalDeaths'[i].Name = totalDeaths[i].Name
    /\ \A i \in DOMAIN firstDeaths :
          i \in DOMAIN firstDeaths' /\ firstDeaths'[i].Name = firstDeaths[i].Name
    /\ \A i, j \in DOMAIN totalDeaths' :
          i # j => totalDeaths'[i].Name # totalDeaths'[j].Name
    /\ \A i, j \in DOMAIN firstDeaths' :
          i # j => firstDeaths'[i].Name # firstDeaths'[j].Name

\* C12: TopDeathsForReport returns two leaderboards of at most 5 entries, each
\* in non-increasing order of count with players of equal count in the order
\* in which they were first counted, and each the first 5 of that ordering.
C12_StableTopFive == []C12_Leaderboards /\ [][C12_FirstSeenOrder]_vars

\* Six players died once each: the board keeps the first five in the order
\* of their first death.
C12_Witness ==
    /\ tdPc = "done"
    /\ Len(totalDeaths) > TopN
    /\ Len(details.TopDeaths) = TopN
    /\ details.TopDeaths[1].Value = details.TopDeaths[TopN].Value
    /\ Len(details.TopFirstDeaths) = 2

----------------------------------------------------------------------------
(* Client.getDeathEvents *)

maxPages == 10

DeathEvent(timestamp, name) == [Timestamp |-> timestamp, Name |-> name]

\* An element of the data array of an events page: a death event, or something
\* json.Unmarshal does not accept as a DeathEvent.
RawEvent(timestamp, name) == [ok |-> TRUE, ev |-> DeathEvent(timestamp, name)]
Malformed == [ok |-> FALSE, ev |-> DeathEvent(0, "")]

RawEvents == {RawEvent(1, "Ann"), RawEvent(2, "Ann"), RawEvent(1, "Bob"), Malformed}

\* The values of nextPageTimestamp the log service uses.
Cursors == {5, 9}

EventsPage(data, next) == [Data |-> data, Next |-> next]

RECURSIVE RawCount(_)
\* The number of array elements the log service has sent.
RawCount(ps) == IF ps = << >> THEN 0 ELSE Len(ps[1].Data) + RawCount(Tail(ps))

\* The pages the log service may answer with next: a fight has a bounded
\* number of events, and the last page of a fight carries no cursor.
NextPages ==
    {EventsPage(d, c) :
        d \in UNION {[1..k -> RawEvents] : k \in 0..(MaxFightEvents - RawCount(pages))},
        c \in IF Len(pages) + 1 < MaxServerPages THEN Cursors \cup {NoCursor}
              ELSE {NoCursor}}

RECURSIVE Unmarshal(_)
\* The inner loop: the elements that unmarshal, in their order.
Unmarshal(data) ==
    IF data = << >> THEN << >>
    ELSE (IF data[1].ok THEN <<data[1].ev>> ELSE << >>) \o Unmarshal(Tail(data))

\* Mutant: the loop goes on for as long as the pages carry a cursor.
AfterPageNoCap(page, count) ==
    IF page.Next = NoCursor THEN "sort" ELSE "query"

\* Where the loop goes after a page: out on a page without cursor or when
\* pageCount reaches maxPages.
AfterPage(page, count) ==
    IF page.Next = NoCursor \/ count + 1 >= maxPages THEN "sort" ELSE "query"

\* Mutant: the events of a page replace the events accumulated.
EventsQueryOverwrites(page) ==
    /\ gdePc = "query"
    /\ queries' = Append(queries, pageTimestamp)
    /\ pages' = Append(pages, page)
    /\ deaths' = Unmarshal(page.Data)
    /\ pageTimestamp' = IF page.Next = NoCursor THEN pageTimestamp ELSE page.Next
    /\ pageCount' = IF page.Next = NoCursor THEN pageCount ELSE pageCount + 1
    /\ gdePc' = AfterPage(page, pageCount)
    /\ UNCHANGED <<watcherVars, botVars, clientVars, totalDeaths, firstDeaths, fightNo,
                   eventNo, firstTaken, details, tdPc>>

\* One iteration of the loop: the query is sent with the cursor as startTime
\* (none the first time) and answered with a page.
EventsQuery(page) ==
    /\ gdePc = "query"
    /\ queries' = Append(queries, pageTimestamp)
    /\ pages' = Append(pages, page)
    /\ deaths' = deaths \o Unmarshal(page.Data)
    /\ pageTimestamp' = IF page.Next = NoCursor THEN pageTimestamp ELSE page.Next
    /\ pageCount' = IF page.Next = NoCursor THEN pageCount ELSE pageCount + 1
    /\ gdePc' = AfterPage(page, pageCount)
    /\ UNCHANGED <<watcherVars, botVars, clientVars, totalDeaths, firstDeaths, fightNo,
                   eventNo, firstTaken, details, tdPc>>

\* The query fails: getDeathEvents returns nil and the error.
EventsQueryErr ==
    /\ gdePc = "query"
    /\ queries' = Append(queries, pageTimestamp)
    /\ deaths' = << >>
    /\ gdePc' = "failed"
    /\ UNCHANGED <<watcherVars, botVars, clientVars, pages, pageTimestamp, pageCount,
                   totalDeaths, firstDeaths, fightNo, eventNo, firstTaken, details, tdPc>>

Occurrences(seq, x) == Cardinality({i \in DOMAIN seq : seq[i] = x})

\* The results sort.Slice by Timestamp can give: it is not a stable sort, so
\* events of equal timestamp come out in any order.
SortedByTimestamp(seq) ==
    {s \in [DOMAIN seq -> {seq[i] : i \in DOMAIN seq}] :
        /\ \A i \in DOMAIN seq : Occurrences(s, seq[i]) = Occurrences(seq, seq[i])
        /\ \A i, j \in DOMAIN s : i < j => ~(s[j].Timestamp < s[i].Timestamp)}

\* Mutant: the events are returned in the order of their arrival.
SortEventsSkipped ==
    /\ gdePc = "sort"
    /\ deaths' = deaths
    /\ gdePc' = "done"
    /\ UNCHANGED <<watcherVars, botVars, clientVars, pages, pageTimestamp, pageCount, queries,
                   totalDeaths, firstDeaths, fightNo, eventNo, firstTaken, details, tdPc>>

\* sort.Slice(deaths, ...); return deaths, nil
SortEvents ==
    /\ gdePc = "sort"
    /\ deaths' \in SortedByTimestamp(deaths)
    /\ gdePc' = "done"
    /\ UNCHANGED <<watcherVars, botVars, clientVars, pages, pageTimestamp, pageCount, queries,
                   totalDeaths, firstDeaths, fightNo, eventNo, firstTaken, details, tdPc>>

(* SpecEvents: one call of getDeathEvents against every short fight *)

InitEvents ==
    /\ InitWatcher
    /\ upstream = << >>
    /\ ClientIdle
    /\ BotIdle
    /\ EventsStart("query", << >>)
    /\ TopDeathsStart("idle")

NextEvents ==
    \/ \E page \in NextPages : EventsQuery(page)
    \/ EventsQueryErr
    \/ SortEvents

SpecEvents == InitEvents /\ [][NextEvents]_vars

----------------------------------------------------------------------------
(* Claims about the events of a fight, under SpecEvents *)

\* The places (page, index) of the array elements the log service has sent.
Places == UNION {{<<i, j>> : j \in DOMAIN pages[i].Data} : i \in DOMAIN pages}

\* The places that hold a well-formed event.
WellFormedPlaces == {pl \in Places : pages[pl[1]].Data[pl[2]].ok}

\* C13: when the log service answered with k <= 10 pages, the last without a
\* cursor, getDeathEvents returns each well-formed event of the k pages as
\* often as the pages hold it and nothing else, in non-decreasing order of
\* timestamp; it sent k queries, the first without a start time and each
\* later one with the cursor of the page before.
C13_AllPagesSortedByTimestamp ==
    (gdePc = "done" /\ Len(pages) <= 10 /\ pages[Len(pages)].Next = NoCursor) =>
        /\ Len(deaths) = Cardinality(WellFormedPlaces)
        /\ \A pl \in WellFormedPlaces :
              LET ev == pages[pl[1]].Data[pl[2]].ev IN
              Occurrences(deaths, ev) =
                  Cardinality({q \in WellFormedPlaces : pages[q[1]].Data[q[2]].ev = ev})
        /\ \A i, j \in DOMAIN deaths : i < j => deaths[i].Timestamp <= deaths[j].Timestamp
        /\ Len(queries) = Len(pages)
        /\ queries[1] = NoCursor
        /\ \A i \in 2..Len(queries) : queries[i] = pages[i - 1].Next

\* Three pages were fetched, the first holding the later one of the two
\* well-formed events, another page an element that does not unmarshal.
C13_Witness ==
    /\ gdePc = "done"
    /\ Len(pages) = 3
    /\ \E pl \in Places : ~pages[pl[1]].Data[pl[2]].ok
    /\ Len(pages[1].Data) = 1
    /\ pages[1].Data[1].ok
    /\ Len(deaths) = 2
    /\ deaths[2] = pages[1].Data[1].ev
    /\ deaths[1].Timestamp < deaths[2].Timestamp

----------------------------------------------------------------------------
(* The rows of the decision table of checkChanges, under SpecPoll *)

\* The loop takes a step.
Moves(l) == loops'[l] # loops[l]

\* The loop is past the decision to update a report and before the end of the
\* iteration for it.
Updating(l) == loops[l].pc \in {"TopDeaths", "sendUpdate", "handler", "Set"}

\* The handler invocations the cycle log of a loop holds for a report.
HandlerCalls(l, code) ==
    {i \in DOMAIN loops[l].log :
        loops[l].log[i][1] = "handler" /\ loops[l].log[i][2] = code}

\* After a successful stats fetch the iteration emits exactly one update with
\* the given liveness and then writes the cache entry with the polled end time
\* and that liveness.
Delivers(l, live) ==
    LET rec == loops[l] IN
    /\ (rec.pc = "sendUpdate" /\ Moves(l)) => loops'[l].pc = "handler"
    /\ (rec.pc = "handler" /\ Moves(l))
          => emitted' = Append(emitted, StatsEvent(rec.server, rec.report, live))
    /\ (rec.pc = "Set" /\ Moves(l))
          => /\ Cardinality(HandlerCalls(l, rec.report.Code)) = 1
             /\ rec.report.Code \in DOMAIN loops'[l].reportsCache
             /\ loops'[l].reportsCache[rec.report.Code].endTime = rec.report.EndTime
             /\ loops'[l].reportsCache[rec.report.Code].isLive = live

\* C14 as stated: a qualifying report without cache entry that is not outdated
\* gets a stats fetch, and when the fetch succeeds exactly one update with
\* Live=true is emitted and the cache entry becomes {polled end time, live}.
C14_AbsentFreshStep ==
    \A l \in DOMAIN loops :
        /\ (IsRangeNext(l)
               /\ ~CacheHas(loops[l].reportsCache, Head(loops[l].reports).Code, now)
               /\ ~IsOutdated(Head(loops[l].reports), now))
              => (loops'[l].pc = "TopDeaths" /\ loops'[l].isLive)
        /\ (Updating(l) /\ loops[l].report.Code \notin DOMAIN loops[l].reportsCache)
              => Delivers(l, TRUE)

C14_AbsentFreshEmitsLive == [][C14_AbsentFreshStep]_vars

\* C16 as stated: a qualifying report whose cache entry has another end time
\* gets a stats fetch, and when the fetch succeeds exactly one update with
\* Live = not outdated is emitted and the cache entry becomes {polled end
\* time, not outdated}, whatever the cached liveness was.
C16_ChangedStep ==
    \A l \in DOMAIN loops :
        /\ (IsRangeNext(l)
               /\ CacheHas(loops[l].reportsCache, Head(loops[l].reports).Code, now)
               /\ loops[l].reportsCache[Head(loops[l].reports).Code].endTime
                     # Head(loops[l].reports).EndTime)
              => /\ loops'[l].pc = "TopDeaths"
                 /\ loops'[l].isLive = ~IsOutdated(Head(loops[l].reports), now)
        /\ (Updating(l) /\ loops[l].report.Code \in DOMAIN loops[l].reportsCache
               /\ loops[l].reportsCache[loops[l].report.Code].endTime
                     # loops[l].report.EndTime)
              => Delivers(l, loops[l].isLive)

C16_ChangedEmitsNotOutdated == [][C16_ChangedStep]_vars

C17_LiveOutdatedStep ==
    \A l \in DOMAIN loops :
        /\ (IsRangeNext(l)
               /\ CacheHas(loops[l].reportsCache, Head(loops[l].reports).Code, now)
               /\ loops[l].reportsCache[Head(loops[l].reports).Code]
                     = [loops[l].reportsCache[Head(loops[l].reports).Code] EXCEPT
                          !.endTime = Head(loops[l].reports).EndTime, !.isLive = TRUE]
               /\ IsOutdated(Head(loops[l].reports), now))
              => (loops'[l].pc = "TopDeaths" /\ ~loops'[l].isLive)
        /\ (Updating(l) /\ loops[l].report.Code \in DOMAIN loops[l].reportsCache
               /\ loops[l].reportsCache[loops[l].report.Code].endTime
                     = loops[l].report.EndTime)
              => Delivers(l, FALSE)

C17_OfflineAtMostOnce ==
    \A i, j \in DOMAIN emitted :
        (i < j /\ SameReport(emitted[i], emitted[j])
           /\ emitted[i].LastUpload = emitted[j].LastUpload /\ ~emitted[i].Live)
            => emitted[j].Live

\* C17 as stated: a qualifying report cached live with the polled end time
\* gets a stats fetch once it is outdated, and when the fetch succeeds exactly
\* one update with Live=false is emitted and the entry becomes not live; the
\* offline update for one end time is emitted at most once.
C17_OutdatedEmitsOfflineOnce ==
    [][C17_LiveOutdatedStep]_vars /\ []C17_OfflineAtMostOnce

C15_AbsentOutdatedStep ==
    \A l \in DOMAIN loops :
        (IsRangeNext(l)
           /\ ~CacheHas(loops[l].reportsCache, Head(loops[l].reports).Code, now)
           /\ IsOutdated(Head(loops[l].reports), now))
          => /\ loops'[l].pc = "range"
             /\ loops'[l].log = Append(loops[l].log, <<"Get", Head(loops[l].reports).Code>>)
             /\ loops'[l].reportsCache = loops[l].reportsCache
             /\ emitted' = emitted

\* C15: in every poll, a qualifying report without cache entry that is
\* outdated gets no stats fetch and no update and the cache is left as it is,
\* so the report is still without entry at the next poll.
C15_AbsentOutdatedSkipped == [][C15_AbsentOutdatedStep]_vars

\* A cycle has just passed over the report the log service holds: it is
\* outdated, the loop has no cache entry for it and nothing was ever emitted.
C15_Witness ==
    \E l \in DOMAIN loops :
        /\ loops[l].pc = "range"
        /\ loops[l].reportsCache = << >>
        /\ emitted = << >>
        /\ \E i \in DOMAIN upstream :
            /\ IsMythicRaid(upstream[i])
            /\ IsOutdated(upstream[i], now)
            /\ loops[l].log = << <<"Get", upstream[i].Code>> >>

----------------------------------------------------------------------------
(* SpecErrors: one loop polling two raid reports, fetches failing at will *)

InitErrors ==
    /\ InitWatcher
    /\ ClientIdle
    /\ BotIdle
    /\ FetchIdle
    /\ upstream = <<Report("ABC", 0, Mythic20), Report("XYZ", 0, NormalThenMythic)>>

NextErrors ==
    \/ nextCtx = 1 /\ WatchLoadOrStore(PollServer)
    \/ WatchGo
    \/ \E l \in Ctxs : LoopAfter(l)
    \/ \E l \in Ctxs : FindReportsOk(l)
    \/ \E l \in Ctxs : FindReportsErr(l)
    \/ \E l \in Ctxs : RangeNext(l)
    \/ \E l \in Ctxs : TopDeathsOk(l)
    \/ \E l \in Ctxs : TopDeathsErr(l)
    \/ \E l \in Ctxs : SendUpdateSelect(l)
    \/ \E l \in Ctxs : SendUpdateHandler(l)
    \/ \E l \in Ctxs : ReportsCacheSet(l)
    \/ Tick(PollInterval)

SpecErrors == InitErrors /\ [][NextErrors]_vars

\* The values the cache holds, without the expiry times.
CacheValues(cache) ==
    [code \in DOMAIN cache |-> <<cache[code].endTime, cache[code].isLive>>]

C18_ErrorStep ==
    \A l \in DOMAIN loops :
        /\ (loops[l].pc = "FindReports" /\ loops'[l].pc = "select")
              => /\ loops'[l].reportsCache = loops[l].reportsCache
                 /\ emitted' = emitted
        /\ (loops[l].pc = "TopDeaths" /\ loops'[l].pc # "sendUpdate" /\ Moves(l))
              => /\ loops'[l].reportsCache = loops[l].reportsCache
                 /\ emitted' = emitted
                 /\ loops'[l].pc = "range"
                 /\ loops'[l].reports = loops[l].reports
        /\ IsRangeNext(l)
              => CacheValues(loops'[l].reportsCache) = CacheValues(loops[l].reportsCache)

C18_RangeGoesOn ==
    \A l \in DOMAIN loops : loops[l].pc = "range" => ENABLED RangeNext(l)

\* C18: a failed listing ends the cycle with the cache and the emitted updates
\* as they were; a failed stats fetch emits nothing and leaves the cache as it
\* is (the decision itself writes no cache value), and the range loop goes on
\* with the reports that remain.
C18_ErrorsChangeNothing == [][C18_ErrorStep]_vars /\ []C18_RangeGoesOn

\* In a later cycle the stats fetch for the first report has just failed once
\* more, the second report is still to come; the first report has no cache
\* entry, the second got its update in an earlier cycle.
C18_Witness ==
    \E l \in DOMAIN loops :
        /\ loops[l].pc = "range"
        /\ loops[l].log = << <<"Get", "ABC">>, <<"TopDeathsErr", "ABC">> >>
        /\ loops[l].reports = <<upstream[2]>>
        /\ DOMAIN loops[l].reportsCache = {"XYZ"}
        /\ Len(emitted) = 1
        /\ emitted[1].ReportId = "XYZ"

----------------------------------------------------------------------------
(* Client.gql: the request, and the retry after a 401 *)

\* What a POST of the GraphQL request ends with: no response, or a status.
Answers == {"transport", "401", "500", "200"}

\* doOnce: the token is read under the read lock.
DoOnceRead(p) ==
    /\ Calling(p, "doOnce")
    /\ mu = NoCaller
    /\ callers' = [callers EXCEPT ![p].tok = token, ![p].pc = "Post"]
    /\ UNCHANGED <<watcherVars, botVars, fetchVars, token, expiresAt, mu, exchanges>>

\* Mutant: every 401 leads to refreshToken and another request.
AfterPostRetriesEvery401(rec, answer) ==
    IF answer = "transport"
    THEN [rec EXCEPT !.pc = "done", !.result = "transportErr"]
    ELSE IF answer = "401" /\ Len(rec.responses) < 2
         THEN [rec EXCEPT !.pc = "Lock", !.from401 = TRUE, !.seen = Len(exchanges)]
         ELSE [rec EXCEPT !.pc = "done",
                          !.result = IF answer = "200" THEN "ok" ELSE "statusErr"]

\* The caller after the answer to its request: a transport error is
\* returned; the first 401 leads to refreshToken; any other answer is
\* judged by its status.
AfterPost(rec, answer) ==
    IF answer = "transport"
    THEN [rec EXCEPT !.pc = "done", !.result = "transportErr"]
    ELSE IF answer = "401" /\ rec.responses = << >>
         THEN [rec EXCEPT !.pc = "Lock", !.from401 = TRUE, !.seen = Len(exchanges)]
         ELSE [rec EXCEPT !.pc = "done",
                          !.result = IF answer = "200" THEN "ok" ELSE "statusErr"]

\* doOnce: the request is posted with the token read, and answered.
Post(p, answer) ==
    /\ Calling(p, "Post")
    /\ callers' = [callers EXCEPT ![p] =
           [AfterPost(@, answer) EXCEPT !.sent = Append(@, callers[p].tok),
                                        !.responses = Append(@, answer),
                                        !.tok = 0]]
    /\ UNCHANGED <<watcherVars, botVars, fetchVars, token, expiresAt, mu, exchanges>>

GqlStep(p) ==
    \/ TokenStep(p)
    \/ DoOnceRead(p)
    \/ \E answer \in Answers : Post(p, answer)

(* SpecGql: concurrent gql calls on one client *)

InitGql == InitClient(MaxGqlCallers, "gql")

NextGql == \E p \in 1..MaxGqlCallers : GqlStep(p)

SpecGql == InitGql /\ [][NextGql]_vars

----------------------------------------------------------------------------
(* Claims about gql, under SpecGql *)

\* C19 as stated: a request that is re-issued after a 401 carries a token
\* obtained by a token exchange made after that 401, whether or not the
\* stored token was more than 60 seconds from its expiry.
C19_RefreshForcedAfter401 ==
    \A p \in DOMAIN callers :
        Len(callers[p].sent) = 2 =>
            \E i \in (callers[p].seen + 1)..Len(exchanges) :
                exchanges[i].ok /\ callers[p].sent[2] = i + 1

\* The error or success a finished call returns for its last answer.
ResultOf(answer) ==
    CASE answer = "transport" -> "transportErr"
      [] answer = "200" -> "ok"
      [] OTHER -> "statusErr"

C20_Requests ==
    \A p \in DOMAIN callers :
        LET c == callers[p] IN
        /\ Len(c.sent) = Len(c.responses)
        /\ Len(c.sent) <= 2
        /\ Len(c.sent) = 2 => c.responses[1] = "401"
        /\ c.result = "ensureErr" => c.sent = << >>
        /\ c.result = "refreshErr" => c.responses = <<"401">>
        /\ c.pc = "done" =>
              /\ c.sent = << >> => c.result = "ensureErr"
              /\ c.responses = <<"401">> => c.result = "refreshErr"
              /\ (Len(c.sent) = 1 /\ c.responses # <<"401">>)
                    => c.result = ResultOf(c.responses[1])
              /\ Len(c.sent) = 2 => c.result = ResultOf(c.responses[2])

C20_ReturnedIsFinal ==
    \A p \in DOMAIN callers : callers[p].pc = "done" => callers'[p] = callers[p]

\* C20: a gql call sends at most two requests: none if ensureToken fails; a
\* second one exactly when the first was answered with 401 and refreshToken
\* did not fail; a first request that fails in transport or with another
\* status, and whatever the second request ends with, is returned to the
\* caller, after which the call sends nothing more.
C20_AtMostTwoRequests == []C20_Requests /\ [][C20_ReturnedIsFinal]_vars

\* A call has returned the error of a second 401.
C20_Witness ==
    \E p \in DOMAIN callers :
        /\ callers[p].pc = "done"
        /\ callers[p].responses = <<"401", "401">>
        /\ callers[p].result = "statusErr"

----------------------------------------------------------------------------
(* Client.gql: what is made of the response that was not retried *)

\* The messages of the application-level errors a response may list.
Messages == {"not found", "rate limited"}

RECURSIVE SeqsUpTo(_, _)
\* The sequences over S of length n at most.
SeqsUpTo(S, n) ==
    IF n = 0 THEN {<< >>}
    ELSE LET shorter == SeqsUpTo(S, n - 1) IN
         shorter \cup {Append(q, x) : q \in {r \in shorter : Len(r) = n - 1}, x \in S}

\* json.RawMessage of the "data" member: "" when the member is missing,
\* the literal null, a value of another type than the output, or an object.
Payloads == {"", "null", "[]", "{v:1}", "{v:2}"}

\* What `out` points to before the call: nothing (nil), a zero value, or a
\* value decoded earlier.
Outputs == {NilOut, 0, 7}

\* gqlEnvelope as resty fills it: only a success status is decoded into it.
Response(status, errors, data) == [status |-> status, errors |-> errors, data |-> data]

Responses ==
    {Response(200, errors, data) : errors \in SeqsUpTo(Messages, MaxErrors), data \in Payloads}
        \cup {Response(500, << >>, "")}

\* resp.IsError()
IsError(r) == r.status > 399

\* json.Unmarshal(env.Data, out)
JsonUnmarshal(data, o) ==
    CASE data = "{v:1}" -> [err |-> NoError, out |-> 1]
      [] data = "{v:2}" -> [err |-> NoError, out |-> 2]
      [] OTHER -> [err |-> GqlError("json", ""), out |-> o]

\* Mutant: the data is decoded before the listed errors are looked at.
GqlResultDecodesFirst(r, o) ==
    IF IsError(r) THEN [err |-> GqlError("status", ""), out |-> o]
    ELSE IF o = NilOut \/ r.data = "" \/ r.data = "null"
         THEN [err |-> IF Len(r.errors) > 0 THEN GqlError("graphql error", r.errors[1])
                       ELSE GqlError("empty data", ""),
               out |-> o]
         ELSE LET u == JsonUnmarshal(r.data, o) IN
              IF Len(r.errors) > 0
              THEN [err |-> GqlError("graphql error", r.errors[1]), out |-> u.out]
              ELSE u

\* The end of gql: the status, the listed errors, the data, the decoding.
GqlResult(r, o) ==
    IF IsError(r) THEN [err |-> GqlError("status", ""), out |-> o]
    ELSE IF Len(r.errors) > 0
         THEN [err |-> GqlError("graphql error", r.errors[1]), out |-> o]
         ELSE IF o = NilOut \/ r.data = "" \/ r.data = "null"
              THEN [err |-> GqlError("empty data", ""), out |-> o]
              ELSE JsonUnmarshal(r.data, o)

GqlReturn ==
    /\ gqlErr = Pending
    /\ gqlErr' = GqlResult(resp, out).err
    /\ out' = GqlResult(resp, out).out
    /\ UNCHANGED <<watcherVars, clientVars, fetchVars, rangeVars, configVars, deliverVars, resp>>

(* SpecEnvelope: gql over every short response and every output value *)

InitEnvelope ==
    /\ InitWatcher
    /\ upstream = << >>
    /\ ClientIdle
    /\ FetchIdle
    /\ RangeIdle
    /\ ConfigIdle
    /\ DeliverIdle
    /\ resp \in Responses
    /\ out \in Outputs
    /\ gqlErr = Pending

NextEnvelope == GqlReturn

SpecEnvelope == InitEnvelope /\ [][NextEnvelope]_vars

----------------------------------------------------------------------------
(* Claims about the envelope, under SpecEnvelope *)

C21_ListedErrorsFail ==
    (gqlErr = Pending /\ ~IsError(resp) /\ Len(resp.errors) > 0 /\ gqlErr' # gqlErr)
        => /\ gqlErr' = GqlError("graphql error", Head(resp.errors))
           /\ out' = out

C21_NoDataFails ==
    (gqlErr = Pending /\ ~IsError(resp) /\ resp.data \in {"", "null"} /\ gqlErr' # gqlErr)
        => /\ gqlErr' # NoError
           /\ out' = out

\* C21: a response with a success status makes gql fail when it lists
\* application-level errors (the error returned carries the first message
\* listed, whatever the data) and when its data is missing or null; either
\* way the caller's output value is what it was before the call.
C21_EnvelopeFailures == [][C21_ListedErrorsFail /\ C21_NoDataFails]_vars

\* gql has returned the first of two listed errors of a response that also
\* carried data, and the output still holds its earlier value.
C21_Witness ==
    /\ resp = Response(200, <<"rate limited", "not found">>, "{v:1}")
    /\ gqlErr = GqlError("graphql error", "rate limited")
    /\ out = 7

----------------------------------------------------------------------------
(* SpecCap: one call of getDeathEvents against a log service that never runs *)
(* out of pages                                                              *)

\* Each page holds one event, the later or the earlier one, and may carry a
\* cursor whatever the number of pages sent before.
EndlessPages ==
    {EventsPage(<<raw>>, c) : raw \in {RawEvent(2, "Ann"), RawEvent(1, "Bob")},
                              c \in {5, NoCursor}}

InitCap == InitEvents

NextCap ==
    \/ \E page \in EndlessPages : EventsQuery(page)
    \/ EventsQueryErr
    \/ SortEvents

\* The goroutine inside getDeathEvents keeps running.
SpecCap == InitCap /\ [][NextCap]_vars /\ WF_vars(NextCap)

----------------------------------------------------------------------------
(* Claims about the page cap, under SpecCap *)

\* The tenth page carried a cursor: the log service has more.
CapReached == Len(pages) = maxPages /\ pages[maxPages].Next # NoCursor

C22_AtMostTenQueries ==
    /\ Len(queries) <= 10
    /\ CapReached => gdePc \in {"sort", "done"}
    /\ (CapReached /\ gdePc = "done") =>
          /\ Len(deaths) = 10
          /\ \A i \in 1..10 :
                Occurrences(deaths, pages[i].Data[1].ev)
                    = Cardinality({j \in 1..10 : pages[j].Data[1].ev = pages[i].Data[1].ev})
          /\ \A i, j \in DOMAIN deaths : i < j => deaths[i].Timestamp <= deaths[j].Timestamp

\* C22: getDeathEvents sends at most 10 events queries in a call, also when
\* every page carries a cursor; when the tenth page still carries one, the
\* call goes on without error to return the events of the ten pages in
\* non-decreasing order of timestamp (the log service holding more); and
\* every call returns in the end.
C22_PageCapTerminates == []C22_AtMostTenQueries /\ <>(gdePc \in {"done", "failed"})

\* The cap was reached: ten pages with a cursor were fetched, the first one
\* holding the later event, and the events came back with the earlier first.
C22_Witness ==
    /\ gdePc = "done"
    /\ CapReached
    /\ Len(queries) = 10
    /\ pages[1].Data[1].ev.Timestamp = 2
    /\ deaths[1].Timestamp = 1
    /\ deaths[10].Timestamp = 2

----------------------------------------------------------------------------
(* Client.TopDeathsForReport over the events Client.getDeathEvents returns *)

NamedIn(seq) == {i \in DOMAIN seq : seq[i].Name # ""}

\* events, err := c.getDeathEvents(...): the call begins.
CallGetDeathEvents ==
    /\ tdPc \in {"GetBossFights", "fights"}
    /\ gdePc = "idle"
    /\ fetched = fightNo
    /\ fightNo < MaxFights
    /\ gdePc' = "query"
    /\ UNCHANGED <<watcherVars, clientVars, botVars, pages, deaths, pageTimestamp, pageCount,
                   queries, totalDeaths, firstDeaths, fightNo, eventNo, firstTaken,
                   details, tdPc>>

\* getDeathEvents has returned deaths, nil.
ReturnEvents ==
    /\ gdePc = "done"
    /\ events' = deaths
    /\ fetched' = fetched + 1
    /\ namedFights' = namedFights + (IF NamedIn(deaths) # {} THEN 1 ELSE 0)
    /\ namedEvents' = namedEvents + Cardinality(NamedIn(deaths))
    /\ pages' = << >>
    /\ deaths' = << >>
    /\ pageTimestamp' = NoCursor
    /\ pageCount' = 0
    /\ queries' = << >>
    /\ gdePc' = "idle"
    /\ UNCHANGED <<watcherVars, clientVars, envelopeVars, configVars, deliverVars,
                   totalDeaths, firstDeaths, fightNo, eventNo, firstTaken, details, tdPc>>

\* for _, f := range fights: the body begins with the events of the fight.
RangeFight == fetched = fightNo + 1 /\ NextFight

\* for _, ev := range events
RangeEvent == eventNo < Len(events) /\ ProcessEvent(events[eventNo + 1].Name)

RangeEnd == eventNo = Len(events) /\ EndFight

\* The fights are exhausted.
RangeReturn == fetched = fightNo /\ gdePc = "idle" /\ SortAndReturn

\* GetBossFights has failed, or getDeathEvents has.
RangeFails ==
    /\ gdePc = "failed" \/ (tdPc = "GetBossFights" /\ gdePc = "idle")
    /\ TopDeathsFails

(* SpecFights: one call of TopDeathsForReport, each fight answered with one *)
(* page of events                                                           *)

FightRawEvents ==
    {RawEvent(1, ""), RawEvent(2, "Ann"), RawEvent(2, "Bob"), RawEvent(3, "Ann")}

FightPages ==
    {EventsPage(d, NoCursor) : d \in UNION {[1..k -> FightRawEvents] : k \in 0..MaxPageEvents}}

InitFights == InitTop

NextFights ==
    \/ GetBossFightsEmpty
    \/ CallGetDeathEvents
    \/ \E page \in FightPages : EventsQuery(page)
    \/ EventsQueryErr
    \/ SortEvents
    \/ ReturnEvents
    \/ RangeFight
    \/ RangeEvent
    \/ RangeEnd
    \/ RangeReturn
    \/ RangeFails

SpecFights == InitFights /\ [][NextFights]_vars

----------------------------------------------------------------------------
(* Claims about the counters, under SpecFights *)

\* The count a counter holds for a player.
CountOf(list, name) ==
    IF \E i \in DOMAIN list : list[i].Name = name
    THEN list[CHOOSE i \in DOMAIN list : list[i].Name = name].Value
    ELSE 0

RECURSIVE SumOf(_)
\* The sum of the counts of a counter.
SumOf(list) == IF list = << >> THEN 0 ELSE Head(list).Value + SumOf(Tail(list))

\* A step of the range over the events of the current fight.
IsRangeEvent == tdPc = "events" /\ eventNo' = eventNo + 1

\* The event is named and has the smallest timestamp of the named events
\* of its fight, no named event of the fight having been counted before it.
IsEarliestNamed(k) ==
    /\ k \in NamedIn(events)
    /\ \A i \in NamedIn(events) : i >= k /\ events[k].Timestamp <= events[i].Timestamp

C23_CountingStep ==
    IsRangeEvent =>
        LET ev == events[eventNo'] IN
        /\ ev.Name # "" =>
              /\ CountOf(totalDeaths', ev.Name) = CountOf(totalDeaths, ev.Name) + 1
              /\ SumOf(totalDeaths') = SumOf(totalDeaths) + 1
        /\ IF IsEarliestNamed(eventNo')
           THEN /\ CountOf(firstDeaths', ev.Name) = CountOf(firstDeaths, ev.Name) + 1
                /\ SumOf(firstDeaths') = SumOf(firstDeaths) + 1
           ELSE firstDeaths' = firstDeaths

\* Every fight fetched has been counted.
Counted == tdPc \in {"fights", "done"} /\ fetched = fightNo

C23_Sums ==
    Counted =>
        /\ SumOf(firstDeaths) = namedFights
        /\ SumOf(firstDeaths) <= fightNo
        /\ SumOf(totalDeaths) = namedEvents

\* C23: of the events of a fight, the named one of smallest timestamp, and
\* no other, adds one to the first-death counter of its player, and every
\* named one adds one to the total counter of its player; so when the
\* fights are counted the first-death counts sum to the number of fights
\* with a named death, at most the number of fights, and the total counts
\* to the number of named death events.
C23_FirstAndTotalCounts == []C23_Sums /\ [][C23_CountingStep]_vars

\* Two fights are counted, one of them without a named death; in the other
\* a later death arrived before the earliest one.
C23_Witness ==
    /\ Counted
    /\ fightNo = 2
    /\ namedFights = 1
    /\ namedEvents = 2
    /\ events = <<DeathEvent(2, "Bob"), DeathEvent(3, "Ann")>>
    /\ firstDeaths = <<PlayerTop("Bob", 1)>>
    /\ totalDeaths = <<PlayerTop("Bob", 1), PlayerTop("Ann", 1)>>

Unnamed(list) == \E i \in DOMAIN list : list[i].Name = ""

C24_NoUnnamedEntry ==
    /\ ~Unnamed(totalDeaths)
    /\ ~Unnamed(firstDeaths)
    /\ tdPc = "done" => ~Unnamed(details.TopDeaths) /\ ~Unnamed(details.TopFirstDeaths)

C24_UnnamedStep ==
    IsRangeEvent =>
        /\ events[eventNo'].Name = ""
              => UNCHANGED <<totalDeaths, firstDeaths, firstTaken>>
        /\ (events[eventNo'].Name # "" /\ \A i \in 1..eventNo : events[i].Name = "")
              => /\ ~firstTaken
                 /\ firstDeaths' = inc(firstDeaths, events[eventNo'].Name)

\* C24: no counter and no leaderboard holds an entry without a name; an
\* unnamed death event changes neither counter and leaves the first-death
\* slot of its fight free, so that the first named event behind unnamed
\* ones is counted as the first death.
C24_UnnamedExcluded == []C24_NoUnnamedEntry /\ [][C24_UnnamedStep]_vars

\* The earliest event of a fight was unnamed and the named one behind it
\* has been counted as the first death.
C24_Witness ==
    /\ tdPc = "events"
    /\ events = <<DeathEvent(1, ""), DeathEvent(2, "Bob")>>
    /\ eventNo = 2
    /\ firstDeaths = <<PlayerTop("Bob", 1)>>

----------------------------------------------------------------------------
(* SpecTtl: one loop polls one report minute by minute for more than the    *)
(* time-to-live of the cache, the listing failing at will, while the        *)
(* eviction goroutine of the cache runs                                     *)

\* The timer of the waiting loop is not due yet: a minute passes.
Minute ==
    /\ now < MaxMinutes
    /\ \E l \in Ctxs : Waiting(l) /\ now < loops[l].after
    /\ now' = now + PollInterval
    /\ UNCHANGED <<clientVars, fetchVars, botVars, watched, nextCtx, cancelled, pendingGo,
                   pendingCancel, loops, upstream, ticks, uploads, emitted, calls, last>>

InitTtl == Init

NextTtl ==
    \/ nextCtx = 1 /\ WatchLoadOrStore(PollServer)
    \/ WatchGo
    \/ \E l \in Ctxs : LoopAfter(l)
    \/ \E l \in Ctxs : FindReportsOk(l)
    \/ \E l \in Ctxs : FindReportsErr(l)
    \/ \E l \in Ctxs : RangeNext(l)
    \/ \E l \in Ctxs : TopDeathsOk(l)
    \/ \E l \in Ctxs : SendUpdateSelect(l)
    \/ \E l \in Ctxs : SendUpdateHandler(l)
    \/ \E l \in Ctxs : ReportsCacheSet(l)
    \/ \E l \in Ctxs : Evict(l)
    \/ Minute

SpecTtl == InitTtl /\ [][NextTtl]_vars

----------------------------------------------------------------------------
(* Claims about the time-to-live of the cache, under SpecTtl *)

\* The step is the write of the entry of this report: reportsCache.Set.
IsSetOf(l, code) ==
    /\ loops[l].pc = "Set"
    /\ loops[l].report.Code = code
    /\ loops'[l].pc # "Set"

C25_OnlyWriteResets ==
    \A l \in DOMAIN loops : \A code \in DOMAIN loops[l].reportsCache :
        LET before == loops[l].reportsCache IN
        LET after == loops'[l].reportsCache IN
        /\ (code \in DOMAIN after /\ after[code].expiresAt # before[code].expiresAt)
              => IsSetOf(l, code)
        /\ IsSetOf(l, code) => after[code].expiresAt = now + CacheTTL

\* C25 as stated: the lifetime of a cache entry is counted from its last
\* write: a write sets its end to one hour later and nothing else moves it,
\* in particular not the read of the entry in a poll cycle; so an entry of
\* a report that stops changing ends one hour after its last write, and the
\* polls after that find no entry.
C25_TtlIndependentOfAccess == [][C25_OnlyWriteResets]_vars

----------------------------------------------------------------------------
(* Claims about a loop that was unwatched, under Spec and SpecLive *)

\* The step is the invocation of the handler by the loop.
InvokesHandler(l) == loops[l].pc = "handler" /\ loops'[l].pc # "handler"

\* C26 as stated: once Unwatch has cancelled the context of a loop, that
\* loop does not invoke the update handler, also when it had passed the
\* context check of sendUpdate before Unwatch ran.
C26_NoHandlerAfterUnwatch ==
    [][\A l \in DOMAIN loops : l \in cancelled => ~InvokesHandler(l)]_vars

\* The eviction goroutines running, and the poll loops running.
EvictionTasks == {l \in DOMAIN loops : loops[l].evictor}
LiveLoops == {l \in DOMAIN loops : loops[l].pc # "stopped"}

\* C28 as stated: there are never more eviction goroutines than poll loops
\* running, and the eviction goroutine of a loop that has terminated
\* terminates in the end.
C28_EvictionTaskEndsWithLoop ==
    /\ [](Cardinality(EvictionTasks) <= Cardinality(LiveLoops))
    /\ \A c \in Ctxs : Stopped(c) ~> (c \notin EvictionTasks)

----------------------------------------------------------------------------
(* main: the set-config command and the GuildCreate event, each handled in a *)
(* goroutine of its own                                                      *)

ConfigGuild == "g1"
Channels == {"c1", "c2"}

Handler(kind, pc, server) == [kind |-> kind, pc |-> pc, server |-> server, cancel |-> 0]

Handling(h, pc) == h \in DOMAIN handlers /\ handlers[h].pc = pc

HandlersOf(kind) == {h \in DOMAIN handlers : handlers[h].kind = kind}

\* A set-config command arrives with the channel it names.
SetConfigCommand(ch) ==
    /\ Cardinality(HandlersOf("set-config")) < MaxSetConfigs
    /\ handlers' = Append(handlers,
           Handler("set-config", "SaveServer", Server(ConfigGuild, ch)))
    /\ UNCHANGED <<watcherVars, clientVars, fetchVars, envelopeVars, rangeVars,
                   deliverVars, store>>

\* The guild connects (once per session of the bot).
GuildCreateEvent ==
    /\ HandlersOf("GuildCreate") = {}
    /\ handlers' = Append(handlers,
           Handler("GuildCreate", "ReadServer", Server(ConfigGuild, "")))
    /\ UNCHANGED <<watcherVars, clientVars, fetchVars, envelopeVars, rangeVars,
                   deliverVars, store>>

\* store.SaveServer(server) succeeds.
SaveServerOk(h) ==
    /\ Handling(h, "SaveServer")
    /\ store' = [g \in DOMAIN store \cup {ConfigGuild} |->
                    IF g = ConfigGuild THEN handlers[h].server ELSE store[g]]
    /\ handlers' = [handlers EXCEPT ![h].pc = "Unwatch"]
    /\ UNCHANGED <<watcherVars, clientVars, fetchVars, envelopeVars, rangeVars, deliverVars>>

\* store.SaveServer(server) fails: the command is answered with an error.
SaveServerErr(h) ==
    /\ Handling(h, "SaveServer")
    /\ handlers' = [handlers EXCEPT ![h].pc = "failed"]
    /\ UNCHANGED <<watcherVars, clientVars, fetchVars, envelopeVars, rangeVars,
                   deliverVars, store>>

\* store.ReadServer(g.Guild.ID): nil when nothing is saved for the guild.
ReadServer(h) ==
    /\ Handling(h, "ReadServer")
    /\ handlers' = [handlers EXCEPT ![h] =
           IF ConfigGuild \in DOMAIN store
           THEN [@ EXCEPT !.server = store[ConfigGuild], !.pc = "Watch"]
           ELSE [@ EXCEPT !.pc = "done"]]
    /\ UNCHANGED <<watcherVars, clientVars, fetchVars, envelopeVars, rangeVars,
                   deliverVars, store>>

\* w.Unwatch(server.ServerId), first half: LoadAndDelete.
HandlerUnwatch(h) ==
    /\ Handling(h, "Unwatch")
    /\ LET r == LoadAndDelete(watched, handlers[h].server.ServerId) IN
        /\ watched' = r.m
        /\ handlers' = [handlers EXCEPT ![h].cancel = r.value,
                                        ![h].pc = IF r.loaded THEN "cancel" ELSE "Watch"]
    /\ UNCHANGED <<clientVars, fetchVars, envelopeVars, rangeVars, deliverVars, store,
                   now, nextCtx, cancelled, pendingGo, pendingCancel, loops, upstream,
                   ticks, uploads, emitted, calls, last>>

\* w.Unwatch(server.ServerId), second half: cancel().
HandlerCancel(h) ==
    /\ Handling(h, "cancel")
    /\ cancelled' = cancelled \cup {handlers[h].cancel}
    /\ handlers' = [handlers EXCEPT ![h].pc = "Watch"]
    /\ UNCHANGED <<clientVars, fetchVars, envelopeVars, rangeVars, deliverVars, store,
                   now, watched, nextCtx, pendingGo, pendingCancel, loops, upstream,
                   ticks, uploads, emitted, calls, last>>

\* w.Watch(server): LoadOrStore of a new context, and `go w.watchLoop` if
\* the guild was not registered.
HandlerWatch(h) ==
    /\ Handling(h, "Watch")
    /\ LET r == LoadOrStore(watched, handlers[h].server.ServerId, nextCtx) IN
        /\ watched' = r.m
        /\ pendingGo' = IF r.loaded THEN pendingGo
                        ELSE pendingGo \cup {[ctx |-> nextCtx, server |-> handlers[h].server]}
    /\ nextCtx' = nextCtx + 1
    /\ handlers' = [handlers EXCEPT ![h].pc = "done"]
    /\ UNCHANGED <<clientVars, fetchVars, envelopeVars, rangeVars, deliverVars, store,
                   now, cancelled, pendingCancel, loops, upstream, ticks, uploads,
                   emitted, calls, last>>

HandlerStep(h) ==
    \/ SaveServerOk(h)
    \/ SaveServerErr(h)
    \/ ReadServer(h)
    \/ HandlerUnwatch(h)
    \/ HandlerCancel(h)
    \/ HandlerWatch(h)

(* SpecConfig: set-config commands and a GuildCreate event for one guild *)

InitConfig == Init

NextConfig ==
    \/ \E ch \in Channels : SetConfigCommand(ch)
    \/ GuildCreateEvent
    \/ \E h \in DOMAIN handlers : HandlerStep(h)
    \/ WatchGo

SpecConfig == InitConfig /\ [][NextConfig]_vars

----------------------------------------------------------------------------
(* Claims about the configuration of the running loop, under SpecConfig *)

\* Every handler has returned and every loop started has reached its select.
Settled ==
    /\ \A h \in DOMAIN handlers : handlers[h].pc \in {"done", "failed"}
    /\ pendingGo = {}

\* C27 as stated: when the set-config commands (and GuildCreate events) of a
\* guild have completed, one of the commands having succeeded, the loop
\* registered for the guild runs with the configuration the store holds
\* for the guild.
C27_LoopUsesSavedConfig ==
    (Settled /\ ConfigGuild \in DOMAIN store) =>
        /\ ConfigGuild \in DOMAIN watched
        /\ watched[ConfigGuild] \in DOMAIN loops
        /\ loops[watched[ConfigGuild]].server = store[ConfigGuild]

----------------------------------------------------------------------------
(* main: the handler registered with w.OnUpdate; every loop calls it from   *)
(* its own goroutine                                                        *)

makeKey(se) == se.Server.ServerId \o se.Server.ChannelId \o se.ReportId

NoMessage == 0

\* The updates delivered: two reports of one guild, live.
DeliveredEvents ==
    {StatsEvent(PollServer, Report(code, 0, Mythic20), TRUE) : code \in {"ABC", "XYZ"}}

Delivery(se) ==
    [key |-> makeKey(se), pc |-> "Get", item |-> NoMessage, sent |-> NoMessage,
     edited |-> NoMessage]

Delivering(d, pc) == d \in DOMAIN deliveries /\ deliveries[d].pc = pc

\* A loop calls the handler with an update.
HandlerCall(se) ==
    /\ Len(deliveries) < MaxDeliveries
    /\ deliveries' = Append(deliveries, Delivery(se))
    /\ UNCHANGED <<watcherVars, clientVars, fetchVars, envelopeVars, rangeVars,
                   configVars, messageCache, messages>>

\* item := messageCache.Get(key)
MessageCacheGet(d) ==
    /\ Delivering(d, "Get")
    /\ LET rec == deliveries[d] IN
       deliveries' = [deliveries EXCEPT ![d] =
           IF rec.key \in DOMAIN messageCache
           THEN [rec EXCEPT !.item = messageCache[rec.key], !.pc = "Edit"]
           ELSE [rec EXCEPT !.pc = "Send"]]
    /\ UNCHANGED <<watcherVars, clientVars, fetchVars, envelopeVars, rangeVars,
                   configVars, messageCache, messages>>

\* dg.ChannelMessageEditComplex of the recorded message; an error is logged.
MessageEdit(d, ok) ==
    /\ Delivering(d, "Edit")
    /\ deliveries' = [deliveries EXCEPT ![d].pc = "done",
                                        ![d].edited = IF ok THEN deliveries[d].item ELSE @]
    /\ UNCHANGED <<watcherVars, clientVars, fetchVars, envelopeVars, rangeVars,
                   configVars, messageCache, messages>>

\* dg.ChannelMessageSendComplex succeeds: a chat message is created.
MessageSendOk(d) ==
    /\ Delivering(d, "Send")
    /\ messages' = Append(messages, deliveries[d].key)
    /\ deliveries' = [deliveries EXCEPT ![d].sent = Len(messages) + 1, ![d].pc = "Set"]
    /\ UNCHANGED <<watcherVars, clientVars, fetchVars, envelopeVars, rangeVars,
                   configVars, messageCache>>

\* dg.ChannelMessageSendComplex fails: the handler returns.
MessageSendErr(d) ==
    /\ Delivering(d, "Send")
    /\ deliveries' = [deliveries EXCEPT ![d].pc = "done"]
    /\ UNCHANGED <<watcherVars, clientVars, fetchVars, envelopeVars, rangeVars,
                   configVars, messageCache, messages>>

\* messageCache.Set(key, msgOut.ID, ttlcache.DefaultTTL)
MessageCacheSet(d) ==
    /\ Delivering(d, "Set")
    /\ messageCache' = [k \in DOMAIN messageCache \cup {deliveries[d].key} |->
           IF k = deliveries[d].key THEN deliveries[d].sent ELSE messageCache[k]]
    /\ deliveries' = [deliveries EXCEPT ![d].pc = "done"]
    /\ UNCHANGED <<watcherVars, clientVars, fetchVars, envelopeVars, rangeVars,
                   configVars, messages>>

OnUpdateStep(d) ==
    \/ MessageCacheGet(d)
    \/ \E ok \in BOOLEAN : MessageEdit(d, ok)
    \/ MessageSendOk(d)
    \/ MessageSendErr(d)
    \/ MessageCacheSet(d)

(* SpecDeliver: the loops of a guild deliver updates, no key expiring *)

InitDeliver == Init

NextDeliver ==
    \/ \E se \in DeliveredEvents : HandlerCall(se)
    \/ \E d \in DOMAIN deliveries : OnUpdateStep(d)

SpecDeliver == InitDeliver /\ [][NextDeliver]_vars

----------------------------------------------------------------------------
(* Claims about the chat messages, under SpecDeliver *)

MessagesOf(key) == {m \in DOMAIN messages : messages[m] = key}

\* C29 as stated: for one key at most one chat message is created (no key
\* leaving the message cache here), a message created is the one recorded
\* for its key once its sender has returned, and an update handled for a
\* key with a message edits that message; also when two loops call the
\* handler for the same key at the same time.
C29_OneMessagePerKey ==
    /\ \A d \in DOMAIN deliveries : Cardinality(MessagesOf(deliveries[d].key)) <= 1
    /\ \A d \in DOMAIN deliveries :
          (deliveries[d].pc = "done" /\ deliveries[d].sent # NoMessage)
              => messageCache[deliveries[d].key] = deliveries[d].sent
    /\ \A d \in DOMAIN deliveries :
          deliveries[d].pc = "Edit" => MessagesOf(deliveries[d].key) = {deliveries[d].item}

====
